---- MODULE Spec2Model ----
(***************************************************************************)
(* Financial aggregation and projection engine of facturador-app           *)
(* (src/lib/accounting-service.ts, hooks/use-expenses).                    *)
(*                                                                         *)
(* Numbers.  JavaScript numbers are modelled in fixed point with three     *)
(* decimals: an integer n stands for n/1000 (Unit == 1000 is 1.00, 10 is   *)
(* one cent).  The resolution is finer than a cent so that round(), which  *)
(* snaps to two decimals, is not the identity.  Arithmetic is exact (no    *)
(* binary floating-point noise).  VAT rates are whole percentages.         *)
(*                                                                         *)
(* Nullable fields.  A nullable value is a sequence: <<>> is null or       *)
(* absent, <<v>> is the value v.                                           *)
(*                                                                         *)
(* Dates.  In the normalizer a date string is a record: ok says whether    *)
(* `new Date(s)` is a valid date, day is the UTC calendar day (a day       *)
(* number) of the parsed instant.  The clock has the local calendar day    *)
(* and the UTC calendar day of the same instant, which differ by at most   *)
(* one.  In the aggregator an issue date is a sequence of one-character    *)
(* strings, so that slice(0, 7) is SubSeq.                                 *)
(***************************************************************************)
EXTENDS Integers, Sequences, FiniteSets, TLC

VARIABLES
  now,          \* wall clock: [localDay, utcDay]
  invoiceRow,   \* the raw invoice row last mapped (<<>> before any)
  invoice,      \* result of mapInvoiceRow on invoiceRow (<<>> before any)
  expenseRow,   \* the raw expense row last mapped
  expense,      \* result of mapExpenseRow on expenseRow
  invoices,     \* list of InvoiceRecord held by the page
  totals,       \* summarizeInvoices(invoices), recomputed with the list
  pc,           \* position of the computation in progress
  aggInvoices,  \* invoices handed to buildMonthlyAggregates
  aggExpenses,  \* expenses handed to buildMonthlyAggregates
  monthlyAggregates,  \* the MonthlyAggregate sequence
  currentCashBalance, \* cash figure handed to calculateProjectionBaseline
  projectionBaseline, \* result of calculateProjectionBaseline (<<>> before)
  financialMetrics,   \* result of calculateFinancialMetrics (<<>> before)
  seasonalityIndices, \* result of analyzeSeasonality (<<>> before)
  monthlyMap,         \* the Map last filled by buildMonthlyAggregates
  runs,               \* log of the completed runs of the chain: input, output
  clockMonth,         \* local calendar [year, month] of the wall clock
  baselineIncome,     \* arguments of projectIncomeWithSeasonality
  projectionMonths,
  growthFactorMonthly,
  projection,         \* result of projectIncomeWithSeasonality (<<>> before)
  rearranged,         \* the aggregates in another order, under other years
  rearrangedIndices,  \* result of analyzeSeasonality on them (<<>> before)
  clockDay,           \* local day of the month of the wall clock
  aiAnswer,           \* the object parsed from the model's answer (route)
  response,           \* body of the projection response (<<>> before)
  invoicesTable,      \* rows of the invoices table in the database
  calls,              \* the hook's mutation calls: position, closure, result
  report,             \* figures of the monthly PDF report (<<>> before)
  data,               \* projection shown by the projection page
  cachedProjection,   \* localStorage item 'cachedProjection'
  cachedSignature,    \* localStorage item 'cachedSignature'
  cachedFrom          \* request body the cached projection answered

vars == <<now, invoiceRow, invoice, expenseRow, expense, invoices, totals,
          pc, aggInvoices, aggExpenses, monthlyAggregates,
          currentCashBalance, projectionBaseline, financialMetrics,
          seasonalityIndices, monthlyMap, runs, clockMonth, baselineIncome,
          projectionMonths, growthFactorMonthly, projection,
          rearranged, rearrangedIndices, clockDay, aiAnswer, response,
          invoicesTable, calls, report, data, cachedProjection,
          cachedSignature, cachedFrom>>

rowVars == <<invoiceRow, invoice>>
expenseVars == <<expenseRow, expense>>
listVars == <<invoices, totals>>
aggVars == <<pc, aggInvoices, aggExpenses, monthlyAggregates>>
baseVars == <<currentCashBalance, projectionBaseline, financialMetrics>>
seasonVars == <<seasonalityIndices>>
chainVars == <<monthlyMap, runs>>
projVars == <<clockMonth, baselineIncome, projectionMonths,
              growthFactorMonthly, projection>>
orderVars == <<rearranged, rearrangedIndices>>
routeVars == <<clockDay, aiAnswer, response>>
hookVars == <<invoicesTable, calls>>
reportVars == <<report>>
pageVars == <<data, cachedProjection, cachedSignature, cachedFrom>>
laterVars == <<orderVars, routeVars, hookVars, reportVars, pageVars>>
extVars == <<seasonVars, chainVars, projVars, laterVars>>

----------------------------------------------------------------------------
(* Bounds and input domains *)

MaxInvoices == 2
MaxAggInvoices == 2
MaxAggExpenses == 2
MaxAggregates == 7

\* 1.00 in fixed point: three decimals
Unit == 10 * 10 * 10

Null == <<>>
Some(v) == <<v>>
Coalesce(opt, default) == IF opt = Null THEN default ELSE opt[1]

Max(a, b) == IF a >= b THEN a ELSE b
Min(a, b) == IF a <= b THEN a ELSE b

Today == 10

Clocks ==
  { [localDay |-> Today, utcDay |-> u] : u \in {Today - 1, Today, Today + 1} }

ParsedDate(d) == [ok |-> TRUE, day |-> d]
InvalidDateString == [ok |-> FALSE, day |-> 0]

----------------------------------------------------------------------------
(* accounting-service.ts: helpers *)

\* round(value) for the value p/q (p, q integers in fixed point, q > 0):
\* Math.round(value * 100) / 100, Math.round being floor(x + 1/2).
round(p, q) == ((p + 5 * q) \div (10 * q)) * 10

ACCOUNTING_STATUS_TO_LABEL ==
  [pendiente |-> "Pendiente", pagado |-> "Pagado", vencido |-> "Vencido"]

Undefined == "undefined"
RangeError == [threw |-> TRUE]

\* new Date(source).toISOString().slice(0, 10): the UTC calendar day of the
\* parsed instant; toISOString throws RangeError on an invalid date.
toDateInputValue(value, clock) ==
  LET source == Coalesce(value, ParsedDate(clock.utcDay))
  IN  IF source.ok THEN [threw |-> FALSE, day |-> source.day] ELSE RangeError

\* asLocalDate on a 'YYYY-MM-DD' string: local midnight of that calendar day.
asLocalDate(value) == value

withComputedStatus_keep(inv, persistedStatus, clock) ==
  LET balance == Max(round(inv.total - inv.paid, 1), 0)
      today == clock.localDay
      due == asLocalDate(inv.dueDate)
      computedStatus ==
        IF balance <= 0 THEN "Pagado"
        ELSE IF due < today THEN "Vencido" ELSE "Pendiente"
      status ==
        IF persistedStatus # Undefined THEN persistedStatus ELSE computedStatus
  IN  [inv EXCEPT !.balance = balance, !.status = status]

withComputedStatus_raw(inv, persistedStatus, clock) ==
  LET balance == Max(inv.total - inv.paid, 0)
      today == clock.localDay
      due == asLocalDate(inv.dueDate)
      computedStatus ==
        IF balance <= 0 THEN "Pagado"
        ELSE IF due < today THEN "Vencido" ELSE "Pendiente"
      status ==
        IF persistedStatus # Undefined
        THEN IF balance <= 0 THEN "Pagado"
             ELSE IF persistedStatus = "Pagado" /\ balance > 0
                  THEN computedStatus
                  ELSE persistedStatus
        ELSE computedStatus
  IN  [inv EXCEPT !.balance = balance, !.status = status]

withComputedStatus_dueInclusive(inv, persistedStatus, clock) ==
  LET balance == Max(round(inv.total - inv.paid, 1), 0)
      today == clock.localDay
      due == asLocalDate(inv.dueDate)
      computedStatus ==
        IF balance <= 0 THEN "Pagado"
        ELSE IF due <= today THEN "Vencido" ELSE "Pendiente"
      status ==
        IF persistedStatus # Undefined
        THEN IF balance <= 0 THEN "Pagado"
             ELSE IF persistedStatus = "Pagado" /\ balance > 0
                  THEN computedStatus
                  ELSE persistedStatus
        ELSE computedStatus
  IN  [inv EXCEPT !.balance = balance, !.status = status]

withComputedStatus_recompute(inv, persistedStatus, clock) ==
  LET balance == Max(round(inv.total - inv.paid, 1), 0)
      today == clock.localDay
      due == asLocalDate(inv.dueDate)
      computedStatus ==
        IF balance <= 0 THEN "Pagado"
        ELSE IF due < today THEN "Vencido" ELSE "Pendiente"
  IN  [inv EXCEPT !.balance = balance, !.status = computedStatus]

withComputedStatus(inv, persistedStatus, clock) ==
  LET balance == Max(round(inv.total - inv.paid, 1), 0)
      today == clock.localDay
      due == asLocalDate(inv.dueDate)
      computedStatus ==
        IF balance <= 0 THEN "Pagado"
        ELSE IF due < today THEN "Vencido" ELSE "Pendiente"
      status ==
        IF persistedStatus # Undefined
        THEN IF balance <= 0 THEN "Pagado"
             ELSE IF persistedStatus = "Pagado" /\ balance > 0
                  THEN computedStatus
                  ELSE persistedStatus
        ELSE computedStatus
  IN  [inv EXCEPT !.balance = balance, !.status = status]

mapInvoiceRow(row, clock) ==
  LET amount == Coalesce(row.amount, 0)
      vat == Coalesce(row.vat, 0)
      total == IF row.total # Null THEN row.total[1]
               ELSE round(amount * (100 + vat), 100)
      paid == Coalesce(row.paid, 0)
      persistedStatus ==
        IF row.status # Null /\ row.status[1] \in DOMAIN ACCOUNTING_STATUS_TO_LABEL
        THEN ACCOUNTING_STATUS_TO_LABEL[row.status[1]]
        ELSE Undefined
      issueDate == toDateInputValue(row.issue_date, clock)
      dueDate ==
        toDateInputValue(IF row.due_date # Null THEN row.due_date
                         ELSE row.issue_date, clock)
  IN  IF issueDate.threw \/ dueDate.threw THEN RangeError
      ELSE [threw |-> FALSE] @@
           withComputedStatus(
             [ recordId |-> row.id,
               issueDate |-> issueDate.day,
               dueDate |-> dueDate.day,
               amount |-> amount,
               vat |-> vat,
               total |-> total,
               paid |-> paid,
               balance |-> Max(total - paid, 0),
               status |-> IF persistedStatus # Undefined THEN persistedStatus
                          ELSE "Pendiente" ],
             persistedStatus, clock)

RECURSIVE summarizeFrom(_, _, _)
summarizeFrom(list, i, acc) ==
  IF i > Len(list) THEN acc
  ELSE LET inv == list[i]
       IN summarizeFrom(list, i + 1,
            [ facturado |-> acc.facturado + inv.total,
              pagado |-> acc.pagado + inv.paid,
              pendiente |-> acc.pendiente + inv.balance,
              vencido |-> IF inv.status = "Vencido"
                          THEN acc.vencido + inv.balance
                          ELSE acc.vencido ])

summarizeInvoices(list) ==
  summarizeFrom(list, 1,
    [facturado |-> 0, pagado |-> 0, pendiente |-> 0, vencido |-> 0])

----------------------------------------------------------------------------
(* hooks/use-expenses: mapExpenseRow *)

mapExpenseRow_stored(row) ==
  [ id |-> row.id,
    issueDate |-> row.issue_date,
    totalAmount |-> row.total_amount,
    category |-> row.category,
    status |-> row.status,
    paidAmount |-> row.paid_amount ]

mapExpenseRow(row) ==
  [ id |-> row.id,
    issueDate |-> row.issue_date,
    totalAmount |-> row.total_amount,
    category |-> row.category,
    status |-> row.status,
    paidAmount |-> IF row.status = "pagado" THEN row.total_amount
                   ELSE row.paid_amount ]

----------------------------------------------------------------------------
(* accounting-service.ts: monthly aggregator.  Strings are sequences of    *)
(* one-character strings.                                                  *)

FIXED_COST_CATEGORIES_noEquipos == {"personal", "administrativos"}
FIXED_COST_CATEGORIES == {"personal", "administrativos", "equipos"}

EmptyString == <<>>
ZeroMonthKey == <<"0", "0", "0", "0", "-", "0", "0">>

\* value.slice(0, 7), or '0000-00' for a falsy value
localMonthKey(value) ==
  IF value = EmptyString THEN ZeroMonthKey
  ELSE SubSeq(value, 1, Min(7, Len(value)))

\* Collation of the characters of a date string: '-' before the digits.
CollationOrder == <<"-", "0", "1", "2", "3", "4", "5", "6", "7", "8", "9">>
CharRank(c) == CHOOSE i \in 1..Len(CollationOrder) : CollationOrder[i] = c

\* a.localeCompare(b): negative, zero or positive
RECURSIVE localeCompareFrom(_, _, _)
localeCompareFrom(a, b, i) ==
  IF i > Len(a) /\ i > Len(b) THEN 0
  ELSE IF i > Len(a) THEN -1
  ELSE IF i > Len(b) THEN 1
  ELSE IF CharRank(a[i]) < CharRank(b[i]) THEN -1
  ELSE IF CharRank(a[i]) > CharRank(b[i]) THEN 1
  ELSE localeCompareFrom(a, b, i + 1)

localeCompare(a, b) == localeCompareFrom(a, b, 1)

\* The Map is a sequence of [key, value] entries in insertion order.
MapHas(map, key) == \E i \in 1..Len(map) : map[i].key = key
MapIndex(map, key) == CHOOSE i \in 1..Len(map) : map[i].key = key
MapGet(map, key, default) ==
  IF MapHas(map, key) THEN map[MapIndex(map, key)].value ELSE default
MapSet(map, key, value) ==
  IF MapHas(map, key)
  THEN [map EXCEPT ![MapIndex(map, key)].value = value]
  ELSE Append(map, [key |-> key, value |-> value])

EmptyEntry == [income |-> 0, fixedExpenses |-> 0, variableExpenses |-> 0]

RECURSIVE forEachInvoice_overwrite(_, _, _)
forEachInvoice_overwrite(map, list, i) ==
  IF i > Len(list) THEN map
  ELSE LET monthKey == localMonthKey(list[i].issueDate)
           entry == MapGet(map, monthKey, EmptyEntry)
       IN forEachInvoice_overwrite(
            MapSet(map, monthKey, [entry EXCEPT !.income = list[i].total]),
            list, i + 1)

RECURSIVE forEachInvoice(_, _, _)
forEachInvoice(map, list, i) ==
  IF i > Len(list) THEN map
  ELSE LET monthKey == localMonthKey(list[i].issueDate)
           entry == MapGet(map, monthKey, EmptyEntry)
       IN forEachInvoice(
            MapSet(map, monthKey,
                   [entry EXCEPT !.income = @ + list[i].total]),
            list, i + 1)

RECURSIVE forEachExpense(_, _, _)
forEachExpense(map, list, i) ==
  IF i > Len(list) THEN map
  ELSE LET monthKey == localMonthKey(list[i].issueDate)
           entry == MapGet(map, monthKey, EmptyEntry)
           updated ==
             IF list[i].category \in FIXED_COST_CATEGORIES
             THEN [entry EXCEPT !.fixedExpenses = @ + list[i].totalAmount]
             ELSE [entry EXCEPT !.variableExpenses = @ + list[i].totalAmount]
       IN forEachExpense(MapSet(map, monthKey, updated), list, i + 1)

\* Array.prototype.sort with the comparator a[0].localeCompare(b[0]):
\* a stable insertion sort.
RECURSIVE insertSorted(_, _)
insertSorted(sorted, e) ==
  IF sorted = <<>> THEN <<e>>
  ELSE IF localeCompare(e.key, sorted[Len(sorted)].key) >= 0
       THEN Append(sorted, e)
       ELSE Append(insertSorted(SubSeq(sorted, 1, Len(sorted) - 1), e),
                   sorted[Len(sorted)])

sortEntries_unsorted(map, i, acc) == map

RECURSIVE sortEntries(_, _, _)
sortEntries(map, i, acc) ==
  IF i > Len(map) THEN acc
  ELSE sortEntries(map, i + 1, insertSorted(acc, map[i]))

toAggregate_unrounded(e) ==
  [ month |-> e.key,
    income |-> e.value.income,
    fixedExpenses |-> e.value.fixedExpenses,
    variableExpenses |-> e.value.variableExpenses,
    totalExpenses |-> e.value.fixedExpenses + e.value.variableExpenses ]

toAggregate(e) ==
  [ month |-> e.key,
    income |-> round(e.value.income, 1),
    fixedExpenses |-> round(e.value.fixedExpenses, 1),
    variableExpenses |-> round(e.value.variableExpenses, 1),
    totalExpenses |->
      round(e.value.fixedExpenses + e.value.variableExpenses, 1) ]

\* the Map object in use as a module-level one would be: never emptied
newMonthlyMap_moduleLevel == monthlyMap

\* new Map(): the Map a call fills is created empty by that call
newMonthlyMap == <<>>

\* the Map after the two forEach loops
buildMonthlyMap(invs, exps) ==
  forEachExpense(forEachInvoice(newMonthlyMap, invs, 1), exps, 1)

buildMonthlyAggregates(invs, exps) ==
  LET sorted == sortEntries(buildMonthlyMap(invs, exps), 1, <<>>)
  IN  [i \in 1..Len(sorted) |-> toAggregate(sorted[i])]

----------------------------------------------------------------------------
(* accounting-service.ts: baseline and metrics.  Rates, break-even and     *)
(* runway are in the same fixed point as amounts (Unit is 1.0).  A result   *)
(* that may be Infinity is [inf, val].                                      *)

lookbackMonths == 6

\* monthlyAggregates.slice(-lookbackMonths)
sliceLast(list, n) == SubSeq(list, Max(Len(list) - n, 0) + 1, Len(list))

RECURSIVE reduceSum(_, _, _)
reduceSum(list, field, i) ==
  IF i > Len(list) THEN 0
  ELSE list[i][field] + reduceSum(list, field, i + 1)

calculateProjectionBaseline_dropCash(aggs, cash) ==
  LET recentAggregates == sliceLast(aggs, lookbackMonths)
      n == Len(recentAggregates)
      totalFixedExpenses == reduceSum(recentAggregates, "fixedExpenses", 1)
      totalVariableExpenses == reduceSum(recentAggregates, "variableExpenses", 1)
      totalIncome == reduceSum(recentAggregates, "income", 1)
  IN  IF n = 0
      THEN [ costosFijosReales |-> 0,
             tasaCostoVariable |-> 0,
             ingresosPromedioRecurrentes |-> 0,
             saldoCajaActual |-> 0 ]
      ELSE [ costosFijosReales |-> round(totalFixedExpenses, n),
             tasaCostoVariable |->
               IF totalIncome > 0
               THEN round(Unit * totalVariableExpenses, totalIncome) ELSE 0,
             ingresosPromedioRecurrentes |-> round(totalIncome, n),
             saldoCajaActual |-> cash ]

calculateProjectionBaseline_rateOverExpenses(aggs, cash) ==
  LET recentAggregates == sliceLast(aggs, lookbackMonths)
      n == Len(recentAggregates)
      totalFixedExpenses == reduceSum(recentAggregates, "fixedExpenses", 1)
      totalVariableExpenses == reduceSum(recentAggregates, "variableExpenses", 1)
      totalIncome == reduceSum(recentAggregates, "income", 1)
  IN  IF n = 0
      THEN [ costosFijosReales |-> 0,
             tasaCostoVariable |-> 0,
             ingresosPromedioRecurrentes |-> 0,
             saldoCajaActual |-> cash ]
      ELSE [ costosFijosReales |-> round(totalFixedExpenses, n),
             tasaCostoVariable |->
               IF totalIncome > 0
               THEN round(Unit * (totalVariableExpenses + totalFixedExpenses),
                          totalIncome)
               ELSE 0,
             ingresosPromedioRecurrentes |-> round(totalIncome, n),
             saldoCajaActual |-> cash ]

calculateProjectionBaseline_divideBySix(aggs, cash) ==
  LET recentAggregates == sliceLast(aggs, lookbackMonths)
      n == Len(recentAggregates)
      totalFixedExpenses == reduceSum(recentAggregates, "fixedExpenses", 1)
      totalVariableExpenses == reduceSum(recentAggregates, "variableExpenses", 1)
      totalIncome == reduceSum(recentAggregates, "income", 1)
  IN  IF n = 0
      THEN [ costosFijosReales |-> 0,
             tasaCostoVariable |-> 0,
             ingresosPromedioRecurrentes |-> 0,
             saldoCajaActual |-> cash ]
      ELSE [ costosFijosReales |-> round(totalFixedExpenses, lookbackMonths),
             tasaCostoVariable |->
               IF totalIncome > 0
               THEN round(Unit * totalVariableExpenses, totalIncome) ELSE 0,
             ingresosPromedioRecurrentes |->
               round(totalIncome, lookbackMonths),
             saldoCajaActual |-> cash ]

calculateProjectionBaseline(aggs, cash) ==
  LET recentAggregates == sliceLast(aggs, lookbackMonths)
      n == Len(recentAggregates)
      totalFixedExpenses == reduceSum(recentAggregates, "fixedExpenses", 1)
      totalVariableExpenses == reduceSum(recentAggregates, "variableExpenses", 1)
      totalIncome == reduceSum(recentAggregates, "income", 1)
  IN  IF n = 0
      THEN [ costosFijosReales |-> 0,
             tasaCostoVariable |-> 0,
             ingresosPromedioRecurrentes |-> 0,
             saldoCajaActual |-> cash ]
      ELSE [ costosFijosReales |-> round(totalFixedExpenses, n),
             tasaCostoVariable |->
               IF totalIncome > 0
               THEN round(Unit * totalVariableExpenses, totalIncome) ELSE 0,
             ingresosPromedioRecurrentes |-> round(totalIncome, n),
             saldoCajaActual |-> cash ]

Finite(v) == [inf |-> FALSE, val |-> v]
Infinity == [inf |-> TRUE, val |-> 0]

calculateFinancialMetrics_zeroMargin(baseline) ==
  LET costosFijosReales == baseline.costosFijosReales
      contributionMarginRatio == Unit - baseline.tasaCostoVariable
      netCashBurn ==
        baseline.costosFijosReales - baseline.ingresosPromedioRecurrentes
  IN  [ puntoEquilibrio |->
          IF contributionMarginRatio > 0
          THEN Finite(round(Unit * costosFijosReales, contributionMarginRatio))
          ELSE Finite(0),
        runway |->
          IF netCashBurn > 0
          THEN Finite(round(Unit * baseline.saldoCajaActual, netCashBurn))
          ELSE Infinity ]

calculateFinancialMetrics_burnWithVariable(baseline) ==
  LET costosFijosReales == baseline.costosFijosReales
      contributionMarginRatio == Unit - baseline.tasaCostoVariable
      netCashBurn ==
        baseline.costosFijosReales
        + (baseline.ingresosPromedioRecurrentes \div Unit)
            * baseline.tasaCostoVariable
        - baseline.ingresosPromedioRecurrentes
  IN  [ puntoEquilibrio |->
          IF contributionMarginRatio > 0
          THEN Finite(round(Unit * costosFijosReales, contributionMarginRatio))
          ELSE IF costosFijosReales > 0 THEN Infinity ELSE Finite(0),
        runway |->
          IF netCashBurn > 0
          THEN Finite(round(Unit * baseline.saldoCajaActual, netCashBurn))
          ELSE Infinity ]

calculateFinancialMetrics(baseline) ==
  LET costosFijosReales == baseline.costosFijosReales
      contributionMarginRatio == Unit - baseline.tasaCostoVariable
      netCashBurn ==
        baseline.costosFijosReales - baseline.ingresosPromedioRecurrentes
  IN  [ puntoEquilibrio |->
          IF contributionMarginRatio > 0
          THEN Finite(round(Unit * costosFijosReales, contributionMarginRatio))
          ELSE IF costosFijosReales > 0 THEN Infinity ELSE Finite(0),
        runway |->
          IF netCashBurn > 0
          THEN Finite(round(Unit * baseline.saldoCajaActual, netCashBurn))
          ELSE Infinity ]

----------------------------------------------------------------------------
(* accounting-service.ts: seasonality analyzer.  An index is in the same    *)
(* fixed point as amounts (Unit is 1.0).  A quotient that the code keeps    *)
(* unrounded (an average) is a fraction [num, den], den > 0; NaN is <<>>    *)
(* and a number n that may be NaN is <<n>>.                                 *)

\* String.prototype.split('-')
RECURSIVE splitFrom(_, _, _, _)
splitFrom(s, i, current, parts) ==
  IF i > Len(s) THEN Append(parts, current)
  ELSE IF s[i] = "-" THEN splitFrom(s, i + 1, <<>>, Append(parts, current))
  ELSE splitFrom(s, i + 1, Append(current, s[i]), parts)

split(s) == splitFrom(s, 1, <<>>, <<>>)

Digits == <<"0", "1", "2", "3", "4", "5", "6", "7", "8", "9">>
IsDigit(c) == \E d \in 1..Len(Digits) : Digits[d] = c
DigitValue(c) == (CHOOSE d \in 1..Len(Digits) : Digits[d] = c) - 1

NaN == <<>>

\* Number(s) for a string of digits and other characters: '' is 0, a string
\* of digits is its decimal value, anything else is NaN.
RECURSIVE NumberFrom(_, _, _)
NumberFrom(s, i, acc) ==
  IF i > Len(s) THEN Some(acc)
  ELSE IF IsDigit(s[i]) THEN NumberFrom(s, i + 1, 10 * acc + DigitValue(s[i]))
  ELSE NaN

Number(s) == NumberFrom(s, 1, 0)

\* const [year, month] = agg.month.split('-').map(Number); month ?? 1
calendarMonthOf(monthKey) ==
  LET parts == split(monthKey)
  IN  IF Len(parts) >= 2 THEN Number(parts[2]) ELSE Some(1)

\* for (i = 1..12) monthlyByCalendar.set(i, [])
RECURSIVE initCalendar(_, _)
initCalendar(i, map) ==
  IF i > 12 THEN map ELSE initCalendar(i + 1, MapSet(map, Some(i), <<>>))

RECURSIVE groupByCalendar(_, _, _)
groupByCalendar(map, aggs, k) ==
  IF k > Len(aggs) THEN map
  ELSE LET calendarMonth == calendarMonthOf(aggs[k].month)
           values == MapGet(map, calendarMonth, <<>>)
       IN groupByCalendar(
            MapSet(map, calendarMonth, Append(values, aggs[k].income)),
            aggs, k + 1)

\* values.reduce((a, b) => a + b, 0)
RECURSIVE reduceAdd(_, _)
reduceAdd(values, i) ==
  IF i > Len(values) THEN 0 ELSE values[i] + reduceAdd(values, i + 1)

Fraction(n, d) == [num |-> n, den |-> d]
AddFractions(a, b) == Fraction(a.num * b.den + b.num * a.den, a.den * b.den)

monthAverages_lastValue(monthlyByCalendar) ==
  [i \in 1..12 |->
     LET values == MapGet(monthlyByCalendar, Some(i), <<>>)
     IN  IF Len(values) > 0 THEN Fraction(values[Len(values)], 1)
         ELSE Fraction(0, 1)]

monthAverages(monthlyByCalendar) ==
  [i \in 1..12 |->
     LET values == MapGet(monthlyByCalendar, Some(i), <<>>)
     IN  IF Len(values) > 0 THEN Fraction(reduceAdd(values, 1), Len(values))
         ELSE Fraction(0, 1)]

RECURSIVE reduceFractions(_, _)
reduceFractions(avgs, i) ==
  IF i > Len(avgs) THEN Fraction(0, 1)
  ELSE AddFractions(avgs[i], reduceFractions(avgs, i + 1))

globalAverageOf_monthsWithIncome(avgs) ==
  LET total == reduceFractions(avgs, 1)
      withIncome == Cardinality({ i \in 1..Len(avgs) : avgs[i].num > 0 })
  IN  IF withIncome > 0 THEN Fraction(total.num, total.den * withIncome)
      ELSE Fraction(0, 1)

globalAverageOf(avgs) ==
  LET total == reduceFractions(avgs, 1)
  IN  IF Len(avgs) > 0 THEN Fraction(total.num, total.den * Len(avgs))
      ELSE Fraction(0, 1)

\* indices[i] = globalAverage > 0 ? round(monthAvg / globalAverage) : 1
RECURSIVE computeIndices(_, _, _, _)
computeIndices(i, avgs, globalAverage, indices) ==
  IF i > 12 THEN indices
  ELSE LET monthAvg == avgs[i]
       IN IF globalAverage.num > 0
          THEN computeIndices(i + 1, avgs, globalAverage,
                 indices @@ (i :> round(Unit * monthAvg.num * globalAverage.den,
                                        monthAvg.den * globalAverage.num)))
          ELSE computeIndices(i + 1, avgs, globalAverage, indices @@ (i :> Unit))

\* the thresholds 2.5 and 0.3 and the targets 2.0 and 0.5
DampenAbove == (5 * Unit) \div 2
DampenBelow == (3 * Unit) \div 10
DampenedHigh == 2 * Unit
DampenedLow == Unit \div 2

RECURSIVE smoothOutliers_highOnly(_, _)
smoothOutliers_highOnly(i, indices) ==
  IF i > 12 THEN indices
  ELSE LET idx == indices[i]
       IN IF idx > DampenAbove
          THEN smoothOutliers_highOnly(i + 1, [indices EXCEPT ![i] = DampenedHigh])
          ELSE smoothOutliers_highOnly(i + 1, indices)

RECURSIVE smoothOutliers_toThresholds(_, _)
smoothOutliers_toThresholds(i, indices) ==
  IF i > 12 THEN indices
  ELSE LET idx == indices[i]
       IN IF idx > DampenAbove
          THEN smoothOutliers_toThresholds(i + 1, [indices EXCEPT ![i] = DampenAbove])
          ELSE IF idx < DampenBelow
          THEN smoothOutliers_toThresholds(i + 1, [indices EXCEPT ![i] = DampenBelow])
          ELSE smoothOutliers_toThresholds(i + 1, indices)

RECURSIVE smoothOutliers(_, _)
smoothOutliers(i, indices) ==
  IF i > 12 THEN indices
  ELSE LET idx == indices[i]
       IN IF idx > DampenAbove
          THEN smoothOutliers(i + 1, [indices EXCEPT ![i] = DampenedHigh])
          ELSE IF idx < DampenBelow
          THEN smoothOutliers(i + 1, [indices EXCEPT ![i] = DampenedLow])
          ELSE smoothOutliers(i + 1, indices)

NeutralIndices == [i \in 1..12 |-> Unit]

\* the indices before the smoothing loop (line 479)
rawIndices(aggs) ==
  LET monthlyByCalendar == groupByCalendar(initCalendar(1, <<>>), aggs, 1)
      avgs == monthAverages(monthlyByCalendar)
  IN  computeIndices(1, avgs, globalAverageOf(avgs), <<>>)

analyzeSeasonality(aggs) ==
  IF Len(aggs) = 0 THEN NeutralIndices
  ELSE smoothOutliers(1, rawIndices(aggs))

----------------------------------------------------------------------------
(* accounting-service.ts: projector.  The growth factor is a fraction      *)
(* [num, den]; the clock is the local calendar [year, month].               *)

dateOf_noRollOver(year, monthIndex) ==
  [year |-> year, month |-> monthIndex % 12]

\* new Date(year, monthIndex, 1): a month index past 11 rolls over into the
\* following years; month is getMonth(), 0 to 11
dateOf(year, monthIndex) ==
  [year |-> year + (monthIndex \div 12), month |-> monthIndex % 12]

\* String(n) for n >= 0: the decimal digits
RECURSIVE String(_)
String(n) ==
  IF n < 10 THEN <<Digits[n + 1]>>
  ELSE Append(String(n \div 10), Digits[(n % 10) + 1])

RECURSIVE padStart(_, _, _)
padStart(str, targetLength, padString) ==
  IF Len(str) >= targetLength THEN str
  ELSE padStart(<<padString>> \o str, targetLength, padString)

RECURSIVE pow_oneLess(_, _)
pow_oneLess(base, exponent) ==
  IF exponent <= 1 THEN Fraction(1, 1)
  ELSE LET rest == pow_oneLess(base, exponent - 1)
       IN  Fraction(base.num * rest.num, base.den * rest.den)

\* Math.pow(base, exponent) for an integer exponent >= 0
RECURSIVE pow(_, _)
pow(base, exponent) ==
  IF exponent = 0 THEN Fraction(1, 1)
  ELSE LET rest == pow(base, exponent - 1)
       IN  Fraction(base.num * rest.num, base.den * rest.den)

RECURSIVE projectFrom(_, _, _, _, _, _, _)
projectFrom(i, months, indices, income, factor, clock, result) ==
  IF i > months THEN result
  ELSE LET futureDate == dateOf(clock.year, clock.month - 1 + i)
           futureYear == futureDate.year
           futureMonth == futureDate.month + 1
           monthKey ==
             String(futureYear) \o <<"-">> \o padStart(String(futureMonth), 2, "0")
           growthFactor == pow(factor, i)
           projectedIncome(seasonalityIndex) ==
             round(income * seasonalityIndex * growthFactor.num,
                   Unit * growthFactor.den)
           pushed(seasonalityIndex) ==
             Append(result,
                    [ month |-> monthKey,
                      projectedIncome |-> projectedIncome(seasonalityIndex) ])
       \* seasonalityIndices[futureMonth] ?? 1
       IN IF futureMonth \in DOMAIN indices
          THEN projectFrom(i + 1, months, indices, income, factor, clock,
                 pushed(indices[futureMonth]))
          ELSE projectFrom(i + 1, months, indices, income, factor, clock,
                 pushed(Unit))

\* factor is <<>> when the fourth argument is omitted (default 1.0)
projectIncomeWithSeasonality(aggs, income, months, factor, clock) ==
  projectFrom(1, months, analyzeSeasonality(aggs), income,
              Coalesce(factor, Fraction(1, 1)), clock, <<>>)

----------------------------------------------------------------------------
(* Input domains of the normalizer *)

Statuses == {"pendiente", "pagado", "vencido"}

ExpenseCategories ==
  {"servicios", "materiales", "personal", "marketing", "administrativos",
   "equipos", "otros"}

\* 8.475 * 1.18 = 10.0005; 10.004 - 9.996 = 0.008; 10.004 - 10 = 0.004.
InvoiceRows ==
  [ id : {"inv-1"},
    amount : {Null, Some(8475)},
    vat : {Null, Some(18)},
    total : {Null, Some(10000), Some(10004)},
    paid : {Null, Some(9996), Some(10000), Some(12000)},
    status : {Null} \cup {Some(s) : s \in Statuses \cup {"anulado"}},
    issue_date : {Null, Some(ParsedDate(Today - 1)), Some(InvalidDateString)},
    due_date : {Null, Some(InvalidDateString)}
               \cup {Some(ParsedDate(d)) : d \in {Today - 1, Today, Today + 1}} ]

\* Rows of the list view: every combination of the four amounts, overdue.
AmountRows ==
  [ id : {"inv-1"},
    amount : {Null, Some(8475)},
    vat : {Null, Some(18)},
    total : {Null, Some(10000), Some(10004)},
    paid : {Null, Some(9996), Some(10000), Some(12000)},
    status : {Null},
    issue_date : {Some(ParsedDate(Today - 1))},
    due_date : {Some(ParsedDate(Today - 1))} ]

ExpenseRows ==
  [ id : {"exp-1"},
    issue_date : {"2024-01-15"},
    total_amount : {0, 5000, 10000},
    category : ExpenseCategories,
    status : Statuses,
    paid_amount : {0, 2500, 5000, 10000} ]

FixedClock == [localDay |-> Today, utcDay |-> Today]

SeasonIdle == seasonalityIndices = Null

ChainIdle == monthlyMap = <<>> /\ runs = <<>>

ProjIdle ==
  /\ clockMonth = [year |-> 2024, month |-> 1]
  /\ baselineIncome = 0
  /\ projectionMonths = 0
  /\ growthFactorMonthly = Null
  /\ projection = Null

OrderIdle == rearranged = <<>> /\ rearrangedIndices = Null

RouteIdle == clockDay = 1 /\ aiAnswer = Null /\ response = Null

HookIdle == invoicesTable = <<>> /\ calls = <<>>

ReportIdle == report = Null

PageIdle ==
  /\ data = Null
  /\ cachedProjection = Null
  /\ cachedSignature = Null
  /\ cachedFrom = Null

LaterIdle == OrderIdle /\ RouteIdle /\ HookIdle /\ ReportIdle /\ PageIdle

ExtIdle == SeasonIdle /\ ChainIdle /\ ProjIdle /\ LaterIdle

BaseIdle ==
  /\ currentCashBalance = 0
  /\ projectionBaseline = Null
  /\ financialMetrics = Null
  /\ ExtIdle

AggIdle ==
  /\ pc = "idle"
  /\ aggInvoices = <<>> /\ aggExpenses = <<>>
  /\ monthlyAggregates = <<>>
  /\ BaseIdle

----------------------------------------------------------------------------
(* Spec: mapInvoiceRow applied to one raw row *)

Init ==
  /\ now \in Clocks
  /\ invoiceRow \in InvoiceRows
  /\ invoice = Null
  /\ expenseRow = Null /\ expense = Null
  /\ invoices = <<>> /\ totals = summarizeInvoices(<<>>)
  /\ AggIdle

MapInvoiceRow ==
  /\ invoiceRow # Null
  /\ invoice = Null
  /\ invoice' = Some(mapInvoiceRow(invoiceRow, now))
  /\ UNCHANGED <<now, extVars, invoiceRow, expenseVars, listVars, aggVars, baseVars>>

Next == MapInvoiceRow

Spec == Init /\ [][Next]_vars

----------------------------------------------------------------------------
(* SpecExpenses: mapExpenseRow applied to one raw row *)

InitExpenses ==
  /\ now = FixedClock
  /\ invoiceRow = Null /\ invoice = Null
  /\ expenseRow \in ExpenseRows
  /\ expense = Null
  /\ invoices = <<>> /\ totals = summarizeInvoices(<<>>)
  /\ AggIdle

MapExpenseRow ==
  /\ expenseRow # Null
  /\ expense = Null
  /\ expense' = Some(mapExpenseRow(expenseRow))
  /\ UNCHANGED <<now, extVars, expenseRow, rowVars, listVars, aggVars, baseVars>>

NextExpenses == MapExpenseRow

SpecExpenses == InitExpenses /\ [][NextExpenses]_vars

----------------------------------------------------------------------------
(* SpecSummary: the invoice list of the page and its totals.  Rows arrive  *)
(* one at a time (use-invoices.ts:89-90, mapInvoiceRow then setInvoices)    *)
(* and the page recomputes summarizeInvoices over the list (page.tsx:60).   *)

InitSummary ==
  /\ now = FixedClock
  /\ invoiceRow = Null /\ invoice = Null
  /\ expenseRow = Null /\ expense = Null
  /\ invoices = <<>>
  /\ totals = summarizeInvoices(<<>>)
  /\ AggIdle

LoadInvoice ==
  /\ Len(invoices) < MaxInvoices
  /\ \E row \in AmountRows :
       LET mapped == mapInvoiceRow(row, now)
       IN  /\ ~mapped.threw
           /\ invoices' = <<mapped>> \o invoices
           /\ totals' = summarizeInvoices(invoices')
  /\ UNCHANGED <<now, extVars, rowVars, expenseVars, aggVars, baseVars>>

NextSummary == LoadInvoice

SpecSummary == InitSummary /\ [][NextSummary]_vars

----------------------------------------------------------------------------
(* SpecAggregator: buildMonthlyAggregates applied to the invoice and       *)
(* expense collections of a request (route POST, part_003:234-239).        *)

Jan2024 == <<"2", "0", "2", "4", "-", "0", "1", "-", "1", "5">>
Feb2024 == <<"2", "0", "2", "4", "-", "0", "2", "-", "1", "0">>
Dec2023 == <<"2", "0", "2", "3", "-", "1", "2", "-", "3", "1">>

AggInvoice(d, t) == [issueDate |-> d, total |-> t]
AggExpense(d, t, c) == [issueDate |-> d, totalAmount |-> t, category |-> c]

\* 1000.00 and 2000.00 as in the documented scenario; 0.004 is below a cent.
InvoiceInputs ==
  { AggInvoice(Jan2024, 1000 * Unit), AggInvoice(Feb2024, 2000 * Unit),
    AggInvoice(Jan2024, 4), AggInvoice(Dec2023, 4),
    AggInvoice(Feb2024, 4), AggInvoice(EmptyString, 1000 * Unit) }

ExpenseInputs ==
  { AggExpense(Jan2024, 300 * Unit, c) : c \in ExpenseCategories }
  \cup { AggExpense(Feb2024, 100 * Unit, "personal"),
         AggExpense(Feb2024, 4, "equipos"),
         AggExpense(Feb2024, 4, "marketing"),
         AggExpense(EmptyString, 300 * Unit, "otros") }

SeqsUpTo(S, n) == UNION { [1..k -> S] : k \in 0..n }

InitAggregator ==
  /\ now = FixedClock
  /\ invoiceRow = Null /\ invoice = Null
  /\ expenseRow = Null /\ expense = Null
  /\ invoices = <<>> /\ totals = summarizeInvoices(<<>>)
  /\ pc = "aggregate"
  /\ aggInvoices \in SeqsUpTo(InvoiceInputs, MaxAggInvoices)
  /\ aggExpenses \in SeqsUpTo(ExpenseInputs, MaxAggExpenses)
  /\ monthlyAggregates = <<>>
  /\ BaseIdle

BuildMonthlyAggregates ==
  /\ pc = "aggregate"
  /\ monthlyAggregates' = buildMonthlyAggregates(aggInvoices, aggExpenses)
  /\ pc' = "aggregated"
  /\ UNCHANGED <<now, extVars, rowVars, expenseVars, listVars, aggInvoices, aggExpenses,
                 baseVars>>

NextAggregator == BuildMonthlyAggregates

SpecAggregator == InitAggregator /\ [][NextAggregator]_vars

----------------------------------------------------------------------------
(* SpecBaseline: calculateProjectionBaseline, then                        *)
(* calculateFinancialMetrics on its result (route POST, part_003:242-245), *)
(* applied to an ascending aggregate sequence and a cash figure.            *)

\* income, variable and fixed expenses of one month
AggregateValues ==
  { [income |-> 200 * Unit, variableExpenses |-> 100 * Unit, fixedExpenses |-> 1000 * Unit],
    [income |-> 1200 * Unit, variableExpenses |-> 0, fixedExpenses |-> 1000 * Unit],
    [income |-> 0, variableExpenses |-> 200 * Unit, fixedExpenses |-> 0],
    [income |-> 100 * Unit, variableExpenses |-> 100 * Unit, fixedExpenses |-> 0] }

CashValues == {0, 500 * Unit}

\* the key of the i-th month of 2023, i <= 9
MonthKeyAt(i) ==
  <<"2", "0", "2", "3", "-", "0", CollationOrder[i + 2]>>

AggregateAt(i, v) ==
  [ month |-> MonthKeyAt(i),
    income |-> v.income,
    fixedExpenses |-> v.fixedExpenses,
    variableExpenses |-> v.variableExpenses,
    totalExpenses |-> v.fixedExpenses + v.variableExpenses ]

AggregateSequences ==
  { [i \in 1..Len(vs) |-> AggregateAt(i, vs[i])] :
      vs \in SeqsUpTo(AggregateValues, MaxAggregates) }

InitBaseline ==
  /\ now = FixedClock
  /\ invoiceRow = Null /\ invoice = Null
  /\ expenseRow = Null /\ expense = Null
  /\ invoices = <<>> /\ totals = summarizeInvoices(<<>>)
  /\ pc = "baseline"
  /\ aggInvoices = <<>> /\ aggExpenses = <<>>
  /\ monthlyAggregates \in AggregateSequences
  /\ currentCashBalance \in CashValues
  /\ projectionBaseline = Null
  /\ financialMetrics = Null
  /\ ExtIdle

CalculateProjectionBaseline ==
  /\ pc = "baseline"
  /\ projectionBaseline' =
       Some(calculateProjectionBaseline(monthlyAggregates, currentCashBalance))
  /\ pc' = "metrics"
  /\ UNCHANGED <<now, extVars, rowVars, expenseVars, listVars, aggInvoices, aggExpenses,
                 monthlyAggregates, currentCashBalance, financialMetrics>>

CalculateFinancialMetrics ==
  /\ pc = "metrics"
  /\ financialMetrics' = Some(calculateFinancialMetrics(projectionBaseline[1]))
  /\ pc' = "done"
  /\ UNCHANGED <<now, extVars, rowVars, expenseVars, listVars, aggInvoices, aggExpenses,
                 monthlyAggregates, currentCashBalance, projectionBaseline>>

NextBaseline == CalculateProjectionBaseline \/ CalculateFinancialMetrics

SpecBaseline == InitBaseline /\ [][NextBaseline]_vars

----------------------------------------------------------------------------
(* SpecSeasonality: analyzeSeasonality applied to an aggregate sequence in *)
(* ascending key order (accounting-service.ts:505).  The result is kept    *)
(* with the indices as they were before the smoothing loop.                *)

MaxSeasonAggregates == 4

\* ascending; '0000-00', a key with no '-', month 13 and a non-numeric month
\* are the malformed ones
SeasonKeys ==
  << ZeroMonthKey,
     <<"2", "0", "2", "3", "-", "0", "1">>,
     <<"2", "0", "2", "4">>,
     <<"2", "0", "2", "4", "-", "0", "1">>,
     <<"2", "0", "2", "4", "-", "0", "2">>,
     <<"2", "0", "2", "4", "-", "1", "3">>,
     <<"2", "0", "2", "4", "-", "x", "x">> >>

\* 0.10, 0.40 and 3.00
SeasonIncomes == {0, 10 * 10, 40 * 10, 3 * Unit}

SeasonAggregate(key, income) ==
  [ month |-> key, income |-> income, fixedExpenses |-> 0,
    variableExpenses |-> 0, totalExpenses |-> 0 ]

RECURSIVE Ascending(_)
Ascending(S) ==
  IF S = {} THEN <<>>
  ELSE LET least == CHOOSE x \in S : \A y \in S : x <= y
       IN  <<least>> \o Ascending(S \ {least})

\* the aggregates of the keys numbered by S, in ascending order
SequencesOver(S) ==
  LET order == Ascending(S)
  IN  { [k \in 1..Len(order) |->
           SeasonAggregate(SeasonKeys[order[k]], f[order[k]])] :
        f \in [S -> SeasonIncomes] }

\* the ascending sequences of at most n aggregates
SeasonalitySequences(n) ==
  UNION { SequencesOver(S) :
          S \in { T \in SUBSET (1..Len(SeasonKeys)) : Cardinality(T) <= n } }

InitSeasonality ==
  /\ now = FixedClock
  /\ invoiceRow = Null /\ invoice = Null
  /\ expenseRow = Null /\ expense = Null
  /\ invoices = <<>> /\ totals = summarizeInvoices(<<>>)
  /\ pc = "seasonality"
  /\ aggInvoices = <<>> /\ aggExpenses = <<>>
  /\ monthlyAggregates \in SeasonalitySequences(MaxSeasonAggregates)
  /\ currentCashBalance = 0
  /\ projectionBaseline = Null
  /\ financialMetrics = Null
  /\ ExtIdle

AnalyzeSeasonality ==
  /\ pc = "seasonality"
  /\ seasonalityIndices' =
       Some([ raw |-> IF Len(monthlyAggregates) = 0 THEN Null
                      ELSE Some(rawIndices(monthlyAggregates)),
              indices |-> analyzeSeasonality(monthlyAggregates) ])
  /\ pc' = "analyzed"
  /\ UNCHANGED <<now, rowVars, expenseVars, listVars, aggInvoices, aggExpenses,
                 monthlyAggregates, baseVars, chainVars, projVars, laterVars>>

NextSeasonality == AnalyzeSeasonality

SpecSeasonality == InitSeasonality /\ [][NextSeasonality]_vars

----------------------------------------------------------------------------
(* SpecProjection: projectIncomeWithSeasonality applied to a history, a    *)
(* baseline income, a number of months and a growth factor, at some local  *)
(* calendar month (route POST, part_003:329-334).                           *)

MaxProjectionMonths == 3

ProjectionHistories ==
  { <<>>,
    << SeasonAggregate(SeasonKeys[4], 10 * 10),
       SeasonAggregate(SeasonKeys[5], 40 * 10) >>,
    << SeasonAggregate(SeasonKeys[2], 10 * 10),
       SeasonAggregate(SeasonKeys[4], 3 * Unit),
       SeasonAggregate(SeasonKeys[5], 40 * 10) >>,
    << SeasonAggregate(SeasonKeys[4], 3 * Unit),
       SeasonAggregate(SeasonKeys[5], 10 * 10) >> }

ClockMonths ==
  { [year |-> 2024, month |-> 1], [year |-> 2024, month |-> 11],
    [year |-> 2024, month |-> 12], [year |-> 2025, month |-> 6] }

\* 0.125 and 0.50
IncomeValues == {0, 125, 50 * 10}

\* omitted (1.0), 1.25, 0.8
GrowthFactors == {Null, Some(Fraction(5, 4)), Some(Fraction(4, 5))}

InitProjection ==
  /\ now = FixedClock
  /\ invoiceRow = Null /\ invoice = Null
  /\ expenseRow = Null /\ expense = Null
  /\ invoices = <<>> /\ totals = summarizeInvoices(<<>>)
  /\ pc = "project"
  /\ aggInvoices = <<>> /\ aggExpenses = <<>>
  /\ monthlyAggregates \in ProjectionHistories
  /\ currentCashBalance = 0
  /\ projectionBaseline = Null
  /\ financialMetrics = Null
  /\ SeasonIdle /\ ChainIdle /\ LaterIdle
  /\ clockMonth \in ClockMonths
  /\ baselineIncome \in IncomeValues
  /\ projectionMonths \in 0..MaxProjectionMonths
  /\ growthFactorMonthly \in GrowthFactors
  /\ projection = Null

ProjectIncomeWithSeasonality ==
  /\ pc = "project"
  /\ seasonalityIndices' =
       Some([ raw |-> IF Len(monthlyAggregates) = 0 THEN Null
                      ELSE Some(rawIndices(monthlyAggregates)),
              indices |-> analyzeSeasonality(monthlyAggregates) ])
  /\ projection' =
       Some(projectIncomeWithSeasonality(monthlyAggregates, baselineIncome,
              projectionMonths, growthFactorMonthly, clockMonth))
  /\ pc' = "projected"
  /\ UNCHANGED <<now, rowVars, expenseVars, listVars, aggInvoices, aggExpenses,
                 monthlyAggregates, baseVars, chainVars, clockMonth,
                 baselineIncome, projectionMonths, growthFactorMonthly,
                 laterVars>>

NextProjection == ProjectIncomeWithSeasonality

SpecProjection == InitProjection /\ [][NextProjection]_vars

----------------------------------------------------------------------------
(* SpecChain: the route handler runs buildMonthlyAggregates,               *)
(* calculateProjectionBaseline and calculateFinancialMetrics in one        *)
(* synchronous stretch per request (route POST, part_003:234-245); the     *)
(* process serves successive requests.  runs logs each request's input     *)
(* and output.                                                              *)

MaxRuns == 3

ChainInvoices ==
  SeqsUpTo({AggInvoice(Jan2024, 1000 * Unit), AggInvoice(Feb2024, 2000 * Unit)}, 1)

ChainExpenses ==
  SeqsUpTo({ AggExpense(Jan2024, 300 * Unit, "servicios"),
             AggExpense(Feb2024, 100 * Unit, "personal") }, 1)

InitChain ==
  /\ now = FixedClock
  /\ invoiceRow = Null /\ invoice = Null
  /\ expenseRow = Null /\ expense = Null
  /\ invoices = <<>> /\ totals = summarizeInvoices(<<>>)
  /\ pc = "serving"
  /\ aggInvoices = <<>> /\ aggExpenses = <<>>
  /\ monthlyAggregates = <<>>
  /\ BaseIdle

Post(invs, exps, cash) ==
  /\ Len(runs) < MaxRuns
  /\ aggInvoices' = invs
  /\ aggExpenses' = exps
  /\ currentCashBalance' = cash
  /\ monthlyMap' = buildMonthlyMap(invs, exps)
  /\ monthlyAggregates' = buildMonthlyAggregates(invs, exps)
  /\ projectionBaseline' =
       Some(calculateProjectionBaseline(monthlyAggregates', cash))
  /\ financialMetrics' =
       Some(calculateFinancialMetrics(projectionBaseline'[1]))
  /\ runs' = Append(runs,
       [ invoices |-> invs, expenses |-> exps, cash |-> cash,
         aggregates |-> monthlyAggregates',
         baseline |-> projectionBaseline'[1],
         metrics |-> financialMetrics'[1] ])
  /\ UNCHANGED <<now, rowVars, expenseVars, listVars, pc, seasonVars, projVars,
                 laterVars>>

NextChain ==
  \E invs \in ChainInvoices, exps \in ChainExpenses, cash \in CashValues :
    Post(invs, exps, cash)

SpecChain == InitChain /\ [][NextChain]_vars

----------------------------------------------------------------------------
(* Properties of the record normalizer *)

\* The multiple of 0.01 nearest to x, a tie going up.
NearestCent(x) ==
  CHOOSE c \in {10 * (x \div 10), 10 * (x \div 10) + 10} :
    c - 5 <= x /\ x < c + 5

RECURSIVE SumOutstanding(_, _)
SumOutstanding(list, i) ==
  IF i > Len(list) THEN 0
  ELSE Max(list[i].total - list[i].paid, 0) + SumOutstanding(list, i + 1)

RECURSIVE SumOutstandingRounded(_, _)
SumOutstandingRounded(list, i) ==
  IF i > Len(list) THEN 0
  ELSE Max(NearestCent(list[i].total - list[i].paid), 0)
       + SumOutstandingRounded(list, i + 1)

\* C1 as stated: every normalized invoice has balance = max(total - paid, 0)
\* and balance >= 0, and 'pendiente' is the sum of max(total - paid, 0).
C1_Original ==
  /\ \A i \in 1..Len(invoices) :
       /\ invoices[i].balance = Max(invoices[i].total - invoices[i].paid, 0)
       /\ invoices[i].balance >= 0
  /\ totals.pendiente = SumOutstanding(invoices, 1)

\* C1 amended: every normalized invoice has
\* balance = max(total - paid rounded to two decimals, 0) and balance >= 0,
\* and 'pendiente' is the sum of these balances.
C1_BalanceIsRoundedOutstanding ==
  /\ \A i \in 1..Len(invoices) :
       /\ invoices[i].balance
            = Max(NearestCent(invoices[i].total - invoices[i].paid), 0)
       /\ invoices[i].balance >= 0
  /\ totals.pendiente = SumOutstandingRounded(invoices, 1)

C1_Witness ==
  /\ Len(invoices) = 2
  /\ invoices[1].total - invoices[1].paid = 8
  /\ invoices[1].balance = 10
  /\ invoices[2].paid > invoices[2].total
  /\ invoices[2].balance = 0
  /\ totals.pendiente = 10

\* C2: a mapped invoice whose computed balance is <= 0 has status 'Pagado',
\* whatever the persisted status and the due date.
C2_ZeroBalanceIsPagado ==
  (invoice # Null /\ ~invoice[1].threw /\ invoice[1].balance <= 0)
    => invoice[1].status = "Pagado"

C2_Witness ==
  /\ invoice # Null /\ ~invoice[1].threw
  /\ invoiceRow.status = Some("vencido")
  /\ invoiceRow.due_date = Some(ParsedDate(Today - 1))
  /\ invoice[1].balance <= 0
  /\ invoice[1].status = "Pagado"

\* C3: a mapped expense has paidAmount = totalAmount when the row's status
\* is 'pagado', and paidAmount = the stored paid_amount otherwise.
C3_PaidExpenseIsFullyPaid ==
  expense # Null =>
    /\ expense[1].totalAmount = expenseRow.total_amount
    /\ expense[1].paidAmount =
         IF expenseRow.status = "pagado" THEN expense[1].totalAmount
         ELSE expenseRow.paid_amount

C3_Witness ==
  /\ expense # Null
  /\ expenseRow.status = "pagado"
  /\ expenseRow.paid_amount = 2500
  /\ expenseRow.total_amount = 10000
  /\ expense[1].paidAmount = 10000

Mapped == invoice # Null /\ ~invoice[1].threw

IsInvalid(date) == date # Null /\ ~date[1].ok

\* the date string from which mapInvoiceRow derives the due date
DueSource ==
  IF invoiceRow.due_date # Null THEN invoiceRow.due_date
  ELSE invoiceRow.issue_date

\* C15: for a raw row whose issue_date or due_date cannot be parsed as a
\* date, mapInvoiceRow does not raise and the corresponding date of the
\* record is the current date.
C15_UnparseableDateFallsBack ==
  invoice # Null =>
    /\ IsInvalid(invoiceRow.issue_date) =>
         ~invoice[1].threw /\ invoice[1].issueDate = now.utcDay
    /\ IsInvalid(DueSource) =>
         ~invoice[1].threw /\ invoice[1].dueDate = now.utcDay

NoPersistedStatus ==
  invoiceRow.status = Null
  \/ invoiceRow.status[1] \notin {"pendiente", "pagado", "vencido"}

\* C16: for a raw row with no persisted status and computed balance > 0 the
\* status is 'Vencido' if and only if the due date is strictly before
\* today's local midnight, and 'Pendiente' otherwise; an invoice due today
\* is 'Pendiente'.
C16_OverdueIffDueBeforeToday ==
  (Mapped /\ NoPersistedStatus /\ invoice[1].balance > 0) =>
    /\ invoice[1].status =
         IF invoice[1].dueDate < now.localDay THEN "Vencido" ELSE "Pendiente"
    /\ invoice[1].dueDate =
         IF DueSource = Null THEN now.utcDay ELSE DueSource[1].day

C16_Witness ==
  /\ Mapped
  /\ invoiceRow.status = Null
  /\ invoiceRow.due_date = Some(ParsedDate(Today))
  /\ now.localDay = Today
  /\ invoice[1].balance > 0
  /\ invoice[1].status = "Pendiente"

\* C17: for a raw row with a persisted status and computed balance > 0, a
\* persisted 'pendiente' or 'vencido' is kept whatever the due date, a
\* persisted 'pagado' is replaced by the date-computed status, and the
\* status is never 'Pagado'.
C17_PersistedStatusWithBalance ==
  (Mapped /\ ~NoPersistedStatus /\ invoice[1].balance > 0) =>
    /\ invoiceRow.status[1] = "pendiente" => invoice[1].status = "Pendiente"
    /\ invoiceRow.status[1] = "vencido" => invoice[1].status = "Vencido"
    /\ invoiceRow.status[1] = "pagado" =>
         invoice[1].status =
           IF invoice[1].dueDate < now.localDay THEN "Vencido" ELSE "Pendiente"
    /\ invoice[1].status # "Pagado"

C17_Witness ==
  /\ Mapped
  /\ invoiceRow.status = Some("pendiente")
  /\ invoiceRow.due_date = Some(ParsedDate(Today - 1))
  /\ invoice[1].balance > 0
  /\ invoice[1].status = "Pendiente"

----------------------------------------------------------------------------
(* Properties of the monthly aggregator *)

RECURSIVE SumSeq(_)
SumSeq(s) == IF s = <<>> THEN 0 ELSE Head(s) + SumSeq(Tail(s))

FirstSeven(d) == SubSeq(d, 1, Min(7, Len(d)))
MonthOf(d) == IF d = EmptyString THEN ZeroMonthKey ELSE FirstSeven(d)

InputDates ==
  { aggInvoices[i].issueDate : i \in 1..Len(aggInvoices) }
  \cup { aggExpenses[i].issueDate : i \in 1..Len(aggExpenses) }

OutputKeys == { monthlyAggregates[i].month : i \in 1..Len(monthlyAggregates) }

\* a strictly before b, character by character
KeyBefore(a, b) ==
  \/ Len(a) < Len(b) /\ SubSeq(b, 1, Len(a)) = a
  \/ \E k \in 1..Min(Len(a), Len(b)) :
       /\ SubSeq(a, 1, k - 1) = SubSeq(b, 1, k - 1)
       /\ CharRank(a[k]) < CharRank(b[k])

KeysUniqueAscending ==
  \A i, j \in 1..Len(monthlyAggregates) :
    i < j => KeyBefore(monthlyAggregates[i].month, monthlyAggregates[j].month)

\* C4 as stated: month keys are unique, strictly ascending, and exactly the
\* first 7 characters of the issue dates of the input records.
C4_Original ==
  pc = "aggregated" =>
    /\ KeysUniqueAscending
    /\ OutputKeys = { FirstSeven(d) : d \in InputDates }

\* C4 amended: month keys are unique, strictly ascending, and exactly the
\* month keys of the input records, the month key of a record being the
\* first 7 characters of its issue date, or '0000-00' when the issue date is
\* empty; a month with no record has no entry.
C4_KeysUniqueAscendingExact ==
  pc = "aggregated" =>
    /\ KeysUniqueAscending
    /\ OutputKeys = { MonthOf(d) : d \in InputDates }

C4_Witness ==
  /\ pc = "aggregated"
  /\ aggInvoices = <<AggInvoice(Feb2024, 2000 * Unit), AggInvoice(EmptyString, 1000 * Unit)>>
  /\ aggExpenses = <<AggExpense(Jan2024, 300 * Unit, "servicios")>>
  /\ Len(monthlyAggregates) = 3
  /\ monthlyAggregates[1].month = ZeroMonthKey
  /\ monthlyAggregates[2].month = FirstSeven(Jan2024)
  /\ monthlyAggregates[3].month = FirstSeven(Feb2024)

InvoiceTotals == [i \in 1..Len(aggInvoices) |-> aggInvoices[i].total]
ExpenseTotals == [i \in 1..Len(aggExpenses) |-> aggExpenses[i].totalAmount]

IsFixedCategory(c) == c \in {"personal", "administrativos", "equipos"}

IncomeOfMonth(m) ==
  SumSeq([i \in 1..Len(aggInvoices) |->
            IF MonthOf(aggInvoices[i].issueDate) = m
            THEN aggInvoices[i].total ELSE 0])

FixedOfMonth(m) ==
  SumSeq([i \in 1..Len(aggExpenses) |->
            IF MonthOf(aggExpenses[i].issueDate) = m
               /\ IsFixedCategory(aggExpenses[i].category)
            THEN aggExpenses[i].totalAmount ELSE 0])

VariableOfMonth(m) ==
  SumSeq([i \in 1..Len(aggExpenses) |->
            IF MonthOf(aggExpenses[i].issueDate) = m
               /\ ~IsFixedCategory(aggExpenses[i].category)
            THEN aggExpenses[i].totalAmount ELSE 0])

SumIncome ==
  SumSeq([i \in 1..Len(monthlyAggregates) |-> monthlyAggregates[i].income])

SumFixedPlusVariable ==
  SumSeq([i \in 1..Len(monthlyAggregates) |->
            monthlyAggregates[i].fixedExpenses
            + monthlyAggregates[i].variableExpenses])

WholeCents(x) == x % 10 = 0

InputsInWholeCents ==
  /\ \A i \in 1..Len(aggInvoices) : WholeCents(aggInvoices[i].total)
  /\ \A i \in 1..Len(aggExpenses) : WholeCents(aggExpenses[i].totalAmount)

\* C5 as stated: the incomes of the aggregates add up to the totals of the
\* invoices, and fixed + variable expenses to the totals of the expenses.
C5_Original ==
  pc = "aggregated" =>
    /\ SumIncome = SumSeq(InvoiceTotals)
    /\ SumFixedPlusVariable = SumSeq(ExpenseTotals)

\* C5 amended: the incomes of the aggregates add up to the monthly invoice
\* totals each rounded to two decimals, and fixed + variable expenses to the
\* monthly fixed and variable totals each rounded to two decimals; when all
\* input amounts are whole cents these are the sums of the inputs.
C5_SumsConservedUpToRounding ==
  pc = "aggregated" =>
    /\ SumIncome =
         SumSeq([i \in 1..Len(monthlyAggregates) |->
                   NearestCent(IncomeOfMonth(monthlyAggregates[i].month))])
    /\ SumFixedPlusVariable =
         SumSeq([i \in 1..Len(monthlyAggregates) |->
                   NearestCent(FixedOfMonth(monthlyAggregates[i].month))
                   + NearestCent(VariableOfMonth(monthlyAggregates[i].month))])
    /\ \A d \in InputDates : MonthOf(d) \in OutputKeys
    /\ InputsInWholeCents =>
         /\ SumIncome = SumSeq(InvoiceTotals)
         /\ SumFixedPlusVariable = SumSeq(ExpenseTotals)

C5_Witness ==
  /\ pc = "aggregated"
  /\ aggInvoices = <<AggInvoice(Jan2024, 1000 * Unit), AggInvoice(Jan2024, 1000 * Unit)>>
  /\ aggExpenses = <<AggExpense(Jan2024, 300 * Unit, "equipos"),
                     AggExpense(Feb2024, 100 * Unit, "personal")>>
  /\ SumIncome = 2000 * Unit
  /\ SumFixedPlusVariable = 400 * Unit

\* C6 as stated: per aggregate, fixedExpenses, variableExpenses and income
\* are the exact sums of that month's fixed-category expenses, other
\* expenses and invoices.
C6_Original ==
  pc = "aggregated" =>
    \A i \in 1..Len(monthlyAggregates) :
      LET a == monthlyAggregates[i]
      IN  /\ a.fixedExpenses = FixedOfMonth(a.month)
          /\ a.variableExpenses = VariableOfMonth(a.month)
          /\ a.income = IncomeOfMonth(a.month)

\* C6 amended: per aggregate, fixedExpenses is the sum of that month's
\* expenses of category personal, administrativos or equipos, rounded to two
\* decimals; variableExpenses the rounded sum of that month's other
\* expenses; income the rounded sum of that month's invoice totals.
C6_SplitByCategory ==
  pc = "aggregated" =>
    \A i \in 1..Len(monthlyAggregates) :
      LET a == monthlyAggregates[i]
      IN  /\ a.fixedExpenses = NearestCent(FixedOfMonth(a.month))
          /\ a.variableExpenses = NearestCent(VariableOfMonth(a.month))
          /\ a.income = NearestCent(IncomeOfMonth(a.month))

C6_Witness ==
  /\ pc = "aggregated"
  /\ aggInvoices = <<AggInvoice(Jan2024, 1000 * Unit), AggInvoice(Feb2024, 2000 * Unit)>>
  /\ aggExpenses = <<AggExpense(Jan2024, 300 * Unit, "servicios"),
                     AggExpense(Feb2024, 100 * Unit, "personal")>>
  /\ monthlyAggregates =
       << [ month |-> FirstSeven(Jan2024), income |-> 1000 * Unit,
            fixedExpenses |-> 0, variableExpenses |-> 300 * Unit,
            totalExpenses |-> 300 * Unit ],
          [ month |-> FirstSeven(Feb2024), income |-> 2000 * Unit,
            fixedExpenses |-> 100 * Unit, variableExpenses |-> 0,
            totalExpenses |-> 100 * Unit ] >>

----------------------------------------------------------------------------
(* Properties of the baseline and the metrics *)

\* r is p/q rounded to two decimals, a tie going up (q > 0)
IsRounded(r, p, q) ==
  /\ r % 10 = 0
  /\ (r - 5) * q <= p
  /\ p < (r + 5) * q

\* sum of a field over the last six aggregates
WindowSum(field) ==
  SumSeq([i \in 1..Len(monthlyAggregates) |->
            IF i > Len(monthlyAggregates) - 6
            THEN monthlyAggregates[i][field] ELSE 0])

BaselineDone == pc \in {"metrics", "done"}

\* C7: the baseline's saldoCajaActual is the supplied cash balance for every
\* input, and with an empty aggregate sequence costosFijosReales,
\* tasaCostoVariable and ingresosPromedioRecurrentes are 0.
C7_CashPassesThrough ==
  BaselineDone =>
    /\ projectionBaseline[1].saldoCajaActual = currentCashBalance
    /\ monthlyAggregates = <<>> =>
         /\ projectionBaseline[1].costosFijosReales = 0
         /\ projectionBaseline[1].tasaCostoVariable = 0
         /\ projectionBaseline[1].ingresosPromedioRecurrentes = 0

C7_Witness ==
  /\ BaselineDone
  /\ monthlyAggregates = <<>>
  /\ currentCashBalance = 500 * Unit
  /\ projectionBaseline[1] =
       [ costosFijosReales |-> 0, tasaCostoVariable |-> 0,
         ingresosPromedioRecurrentes |-> 0, saldoCajaActual |-> 500 * Unit ]

WindowLength == Min(Len(monthlyAggregates), 6)

\* C18 as stated: the averages are taken over the last 6 entries (all when
\* fewer), and average fixed expenses and average recurring income are
\* exactly the window sums divided by the number of entries in the window.
C18_Original ==
  (BaselineDone /\ monthlyAggregates # <<>>) =>
    /\ projectionBaseline[1].costosFijosReales * WindowLength
         = WindowSum("fixedExpenses")
    /\ projectionBaseline[1].ingresosPromedioRecurrentes * WindowLength
         = WindowSum("income")

\* C18 amended: the averages are taken over the last 6 entries (all when
\* fewer), every earlier entry being ignored, and average fixed expenses and
\* average recurring income are the window sums divided by the number of
\* entries in the window, rounded to two decimals.
C18_AveragesOverWindow ==
  (BaselineDone /\ monthlyAggregates # <<>>) =>
    /\ IsRounded(projectionBaseline[1].costosFijosReales,
                 WindowSum("fixedExpenses"), WindowLength)
    /\ IsRounded(projectionBaseline[1].ingresosPromedioRecurrentes,
                 WindowSum("income"), WindowLength)

C18_Witness ==
  /\ BaselineDone
  /\ Len(monthlyAggregates) = 7
  /\ monthlyAggregates[1].income = 1200 * Unit
  /\ monthlyAggregates[1].fixedExpenses = 1000 * Unit
  /\ \A i \in 2..7 : /\ monthlyAggregates[i].income = 100 * Unit
                     /\ monthlyAggregates[i].fixedExpenses = 0
  /\ projectionBaseline[1].costosFijosReales = 0
  /\ projectionBaseline[1].ingresosPromedioRecurrentes = 100 * Unit

MetricsDone == pc = "done"

ContributionMargin == Unit - projectionBaseline[1].tasaCostoVariable

\* C9 as stated: break-even is exactly fixedCosts / (1 - variableRate) when
\* 1 - variableRate > 0; Infinity when 1 - variableRate <= 0 and
\* fixedCosts > 0; 0 when 1 - variableRate <= 0 and fixedCosts = 0.
C9_Original ==
  MetricsDone =>
    LET fixed == projectionBaseline[1].costosFijosReales
        pe == financialMetrics[1].puntoEquilibrio
    IN  /\ ContributionMargin > 0 =>
             ~pe.inf /\ pe.val * ContributionMargin = Unit * fixed
        /\ (ContributionMargin <= 0 /\ fixed > 0) => pe = Infinity
        /\ (ContributionMargin <= 0 /\ fixed = 0) => pe = Finite(0)

\* C9 amended: break-even is fixedCosts / (1 - variableRate) rounded to two
\* decimals when 1 - variableRate > 0; Infinity when 1 - variableRate <= 0
\* and fixedCosts > 0; 0 when 1 - variableRate <= 0 and fixedCosts = 0.
C9_BreakEven ==
  MetricsDone =>
    LET fixed == projectionBaseline[1].costosFijosReales
        pe == financialMetrics[1].puntoEquilibrio
    IN  /\ ContributionMargin > 0 =>
             ~pe.inf /\ IsRounded(pe.val, Unit * fixed, ContributionMargin)
        /\ (ContributionMargin <= 0 /\ fixed > 0) => pe = Infinity
        /\ (ContributionMargin <= 0 /\ fixed = 0) => pe = Finite(0)

C9_Witness ==
  /\ MetricsDone
  /\ projectionBaseline[1].costosFijosReales = 1000 * Unit
  /\ projectionBaseline[1].tasaCostoVariable = 500
  /\ financialMetrics[1].puntoEquilibrio = Finite(2000 * Unit)

NetBurn ==
  projectionBaseline[1].costosFijosReales
  - projectionBaseline[1].ingresosPromedioRecurrentes

RateValues == {0, 500, 1000, 1500}

RunwayIgnoresRate ==
  \A r \in RateValues :
    calculateFinancialMetrics(
      [projectionBaseline[1] EXCEPT !.tasaCostoVariable = r]).runway
      = financialMetrics[1].runway

\* C10 as stated: runway is exactly cashBalance / netBurn when netBurn > 0,
\* Infinity when netBurn <= 0, and does not depend on the variable rate.
C10_Original ==
  MetricsDone =>
    LET runway == financialMetrics[1].runway
    IN  /\ NetBurn > 0 =>
             ~runway.inf /\ runway.val * NetBurn = Unit * currentCashBalance
        /\ NetBurn <= 0 => runway = Infinity
        /\ RunwayIgnoresRate

\* C10 amended: runway is cashBalance / netBurn rounded to two decimals
\* when netBurn > 0, Infinity when netBurn <= 0, and does not depend on the
\* variable rate.
C10_Runway ==
  MetricsDone =>
    LET runway == financialMetrics[1].runway
    IN  /\ NetBurn > 0 =>
             ~runway.inf /\ IsRounded(runway.val, Unit * currentCashBalance, NetBurn)
        /\ NetBurn <= 0 => runway = Infinity
        /\ RunwayIgnoresRate

C10_Witness ==
  /\ MetricsDone
  /\ projectionBaseline[1].costosFijosReales = 1000 * Unit
  /\ projectionBaseline[1].ingresosPromedioRecurrentes = 1200 * Unit
  /\ projectionBaseline[1].saldoCajaActual = 500 * Unit
  /\ financialMetrics[1].runway = Infinity


----------------------------------------------------------------------------
(* Properties of the seasonality analyzer *)

Analyzed == pc = "analyzed"

Indices == seasonalityIndices[1].indices
RawIndices == seasonalityIndices[1].raw[1]

\* positions of the '-' characters of a key
Dashes(key) == { i \in 1..Len(key) : key[i] = "-" }

\* the characters between the first '-' and the next one (or the end)
MonthDigits(key) ==
  LET first == CHOOSE i \in Dashes(key) : \A j \in Dashes(key) : i <= j
      later == { j \in Dashes(key) : j > first }
      stop == IF later = {} THEN Len(key) + 1
              ELSE CHOOSE j \in later : \A l \in later : j <= l
  IN  SubSeq(key, first + 1, stop - 1)

RECURSIVE Decimal(_)
Decimal(ds) ==
  IF ds = <<>> THEN 0
  ELSE 10 * Decimal(SubSeq(ds, 1, Len(ds) - 1)) + DigitValue(ds[Len(ds)])

\* calendar month of a month key 'YYYY-MM'; a key with no '-' counts as
\* January, a month that is not a number counts as no month (0)
CalendarMonth(key) ==
  IF Dashes(key) = {} THEN 1
  ELSE IF \A i \in 1..Len(MonthDigits(key)) : IsDigit(MonthDigits(key)[i])
       THEN Decimal(MonthDigits(key))
       ELSE 0

IncomeSumOf(m) ==
  SumSeq([i \in 1..Len(monthlyAggregates) |->
            IF CalendarMonth(monthlyAggregates[i].month) = m
            THEN monthlyAggregates[i].income ELSE 0])

CountOf(m) ==
  Cardinality({ i \in 1..Len(monthlyAggregates) :
                  CalendarMonth(monthlyAggregates[i].month) = m })

\* a common multiple of the numbers of aggregates a calendar month can have
\* (at most three keys of SeasonKeys share a calendar month)
CommonCount == 2 * 3

\* CommonCount times the mean income of each calendar month (0 if none)
ScaledAverages ==
  [m \in 1..12 |->
     IF CountOf(m) = 0 THEN 0
     ELSE (IncomeSumOf(m) * CommonCount) \div CountOf(m)]

\* C11 as stated: the result has exactly the keys 1..12, every index is 1.0
\* for an empty sequence, and no index is below 0.5 or above 2.0.
C11_Original ==
  Analyzed =>
    /\ DOMAIN Indices = 1..12
    /\ monthlyAggregates = <<>> => \A m \in 1..12 : Indices[m] = Unit
    /\ \A m \in 1..12 : Unit \div 2 <= Indices[m] /\ Indices[m] <= 2 * Unit

\* C11 amended: the result has exactly the keys 1..12, every index is 1.0
\* for an empty sequence, and no index is below 0.3 or above 2.5.
C11_TwelveBoundedIndices ==
  Analyzed =>
    /\ DOMAIN Indices = 1..12
    /\ monthlyAggregates = <<>> => \A m \in 1..12 : Indices[m] = Unit
    /\ \A m \in 1..12 :
         3 * Unit <= 10 * Indices[m] /\ 2 * Indices[m] <= 5 * Unit

C11_Witness ==
  /\ Analyzed
  /\ Len(monthlyAggregates) = 4
  /\ \E i \in 1..4 : CalendarMonth(monthlyAggregates[i].month) = 13
  /\ \E i \in 1..4 : Dashes(monthlyAggregates[i].month) = {}
  /\ Indices[1] = (24 * Unit) \div 10
  /\ Indices[2] = 2 * Unit
  /\ Indices[3] = Unit \div 2

MonthsWithIncome == { m \in 1..12 : IncomeSumOf(m) > 0 }

\* C20: each returned index is 2.0 when the index before dampening is above
\* 2.5, 0.5 when it is below 0.3, and that index unchanged otherwise; when
\* the history has positive income in one calendar month only, that month's
\* returned index is 2.0.
C20_Dampening ==
  (Analyzed /\ monthlyAggregates # <<>>) =>
    /\ \A m \in 1..12 :
         Indices[m] =
           IF 2 * RawIndices[m] > 5 * Unit THEN 2 * Unit
           ELSE IF 10 * RawIndices[m] < 3 * Unit THEN Unit \div 2
           ELSE RawIndices[m]
    /\ \A m \in MonthsWithIncome :
         MonthsWithIncome = {m} => Indices[m] = 2 * Unit

C20_Witness ==
  /\ Analyzed
  /\ Len(monthlyAggregates) = 2
  /\ monthlyAggregates[1] = SeasonAggregate(SeasonKeys[2], 3 * Unit)
  /\ monthlyAggregates[2] = SeasonAggregate(SeasonKeys[4], 10 * 10)
  /\ MonthsWithIncome = {1}
  /\ RawIndices[1] = 12 * Unit
  /\ Indices[1] = 2 * Unit
  /\ Indices[2] = Unit \div 2

----------------------------------------------------------------------------
(* Properties of the projector *)

Projected == pc = "projected"

\* a key 'YYYY-MM' with a month from 01 to 12
IsMonthKey(key) ==
  /\ Len(key) = 7
  /\ key[5] = "-"
  /\ \A i \in {1, 2, 3, 4, 6, 7} : IsDigit(key[i])
  /\ Decimal(SubSeq(key, 6, 7)) \in 1..12

\* months elapsed since year 0 up to the month of a key
MonthOrdinal(key) ==
  12 * Decimal(SubSeq(key, 1, 4)) + Decimal(SubSeq(key, 6, 7)) - 1

ClockOrdinal == 12 * clockMonth.year + clockMonth.month - 1

\* C12: for every history and every requested N >= 0 the projection has
\* exactly N entries, the i-th being keyed by the i-th calendar month after
\* the current one (so ascending, December rolling over to January of the
\* next year).
C12_ConsecutiveFutureMonths ==
  Projected =>
    /\ Len(projection[1]) = projectionMonths
    /\ \A i \in 1..Len(projection[1]) :
         /\ IsMonthKey(projection[1][i].month)
         /\ MonthOrdinal(projection[1][i].month) = ClockOrdinal + i
    /\ \A i, j \in 1..Len(projection[1]) :
         i < j => KeyBefore(projection[1][i].month, projection[1][j].month)

C12_Witness ==
  /\ Projected
  /\ monthlyAggregates = <<>>
  /\ clockMonth = [year |-> 2024, month |-> 11]
  /\ Len(projection[1]) = 3
  /\ projection[1][1].month = <<"2", "0", "2", "4", "-", "1", "2">>
  /\ projection[1][2].month = <<"2", "0", "2", "5", "-", "0", "1">>
  /\ projection[1][3].month = <<"2", "0", "2", "5", "-", "0", "2">>

GrowthNum == IF growthFactorMonthly = Null THEN 1 ELSE growthFactorMonthly[1].num
GrowthDen == IF growthFactorMonthly = Null THEN 1 ELSE growthFactorMonthly[1].den

\* calendar month, 1 to 12, of the i-th month after the current one
TargetMonth(i) == ((clockMonth.month - 1 + i) % 12) + 1

\* C13: the i-th projected income is baselineIncome x seasonalityIndex of
\* the target calendar month x growthFactorMonthly^i, rounded to two
\* decimals, the indices being analyzeSeasonality of the same history; with
\* growth 1.0 it is round(baselineIncome x seasonalityIndex), and with
\* growth 1.0 and an empty history it is round(baselineIncome).
C13_ProjectedIncome ==
  Projected =>
    LET indices == analyzeSeasonality(monthlyAggregates)
    IN  \A i \in 1..Len(projection[1]) :
          LET income == projection[1][i].projectedIncome
              index == indices[TargetMonth(i)]
          IN  /\ IsRounded(income, baselineIncome * index * GrowthNum ^ i,
                           Unit * GrowthDen ^ i)
              /\ GrowthNum = GrowthDen =>
                   IsRounded(income, baselineIncome * index, Unit)
              /\ (GrowthNum = GrowthDen /\ monthlyAggregates = <<>>) =>
                   income = NearestCent(baselineIncome)

C13_Witness ==
  /\ Projected
  /\ Len(monthlyAggregates) = 2
  /\ monthlyAggregates[1].month = SeasonKeys[4]
  /\ clockMonth = [year |-> 2024, month |-> 12]
  /\ baselineIncome = 125
  /\ growthFactorMonthly = Some(Fraction(5, 4))
  /\ Len(projection[1]) = 3
  /\ seasonalityIndices[1].indices[1] = (24 * Unit) \div 10
  /\ projection[1][1].projectedIncome = 38 * 10
  /\ projection[1][2].projectedIncome = 39 * 10
  /\ projection[1][3].projectedIncome = 12 * 10

----------------------------------------------------------------------------
(* Properties of the chain *)

SameInput(a, b) ==
  /\ a.invoices = b.invoices
  /\ a.expenses = b.expenses
  /\ a.cash = b.cash

----------------------------------------------------------------------------
(* SpecRearranged: analyzeSeasonality applied to an aggregate sequence and *)
(* then to the same aggregates in another order, each key under the same   *)
(* or another year (accounting-service.ts:444-468).                        *)

MaxRearranged == 3

\* 2023-01, '2024' (no '-'), 2024-01 and 2024-02
RearrangedKeys == {2, 3, 4, 5}

RearrangedIncomes == {10 * 10, 40 * 10, 3 * Unit}

RearrangedSequences(n) ==
  UNION { { [k \in 1..Len(Ascending(S)) |->
               SeasonAggregate(SeasonKeys[Ascending(S)[k]], f[Ascending(S)[k]])] :
            f \in [S -> RearrangedIncomes] } :
          S \in { T \in SUBSET RearrangedKeys : Cardinality(T) <= n } }

OtherYear == <<"1", "9", "9", "9">>

\* the key with its year part (the text before the first '-') replaced
RECURSIVE afterYear(_, _)
afterYear(key, i) ==
  IF i > Len(key) THEN <<>>
  ELSE IF key[i] = "-" THEN SubSeq(key, i, Len(key))
  ELSE afterYear(key, i + 1)

withYear(key, year) == year \o afterYear(key, 1)

InitRearranged ==
  /\ now = FixedClock
  /\ invoiceRow = Null /\ invoice = Null
  /\ expenseRow = Null /\ expense = Null
  /\ invoices = <<>> /\ totals = summarizeInvoices(<<>>)
  /\ pc = "seasonality"
  /\ aggInvoices = <<>> /\ aggExpenses = <<>>
  /\ monthlyAggregates \in RearrangedSequences(MaxRearranged)
  /\ currentCashBalance = 0
  /\ projectionBaseline = Null
  /\ financialMetrics = Null
  /\ ExtIdle

\* a second call, on the aggregates taken in the order p, the k-th one
\* under OtherYear when otherYear[k]
AnalyzeRearranged(p, otherYear) ==
  /\ pc = "analyzed"
  /\ rearranged' =
       [k \in 1..Len(monthlyAggregates) |->
          LET agg == monthlyAggregates[p[k]]
          IN  IF otherYear[k]
              THEN [agg EXCEPT !.month = withYear(agg.month, OtherYear)]
              ELSE agg]
  /\ rearrangedIndices' = Some(analyzeSeasonality(rearranged'))
  /\ pc' = "compared"
  /\ UNCHANGED <<now, rowVars, expenseVars, listVars, aggInvoices, aggExpenses,
                 monthlyAggregates, baseVars, seasonVars, chainVars, projVars,
                 routeVars, hookVars, reportVars, pageVars>>

NextRearranged ==
  \/ AnalyzeSeasonality
  \/ \E p \in Permutations(1..Len(monthlyAggregates)),
        otherYear \in [1..Len(monthlyAggregates) -> BOOLEAN] :
       AnalyzeRearranged(p, otherYear)

SpecRearranged == InitRearranged /\ [][NextRearranged]_vars

Compared == pc = "compared"

----------------------------------------------------------------------------
(* Route POST /api/ai, projection mode (part_003:220-394).  The amounts of *)
(* the response are products of two fixed-point numbers: they are kept in  *)
(* millionths (Unit * Unit is 1.0).  A date is [year, month, day] with the *)
(* month as getMonth() gives it, 0 to 11.                                   *)

Micro(v) == v * Unit

isLeapYear(year) ==
  (year % 4 = 0 /\ year % 100 # 0) \/ year % 400 = 0

daysInMonth(year, month) ==
  IF month = 1 THEN (IF isLeapYear(year) THEN 29 ELSE 28)
  ELSE IF month \in {3, 5, 8, 10} THEN 30 ELSE 31

\* Date.prototype.setMonth(monthValue): the day of the month is kept, and a
\* day past the end of the target month runs over into the month after it
setMonth(date, monthValue) ==
  LET year == date.year + (monthValue \div 12)
      month == monthValue % 12
      days == daysInMonth(year, month)
  IN  IF date.day <= days THEN [year |-> year, month |-> month, day |-> date.day]
      ELSE [ year |-> year + ((month + 1) \div 12),
             month |-> (month + 1) % 12,
             day |-> date.day - days ]

\* the projection without history (part_003:309-327)
RECURSIVE fallbackProjection(_, _, _, _)
fallbackProjection(i, today, baseline, pnl) ==
  IF i >= 12 THEN pnl
  ELSE LET futureDate == setMonth(today, today.month + i + 1)
           monthKey ==
             String(futureDate.year) \o <<"-">>
               \o padStart(String(futureDate.month + 1), 2, "0")
           income == baseline.ingresosPromedioRecurrentes
       IN fallbackProjection(i + 1, today, baseline,
            Append(pnl,
              [ mes |-> monthKey,
                ventas_devengado |-> Micro(income),
                costos_variables |-> income * baseline.tasaCostoVariable,
                costos_fijos |-> Micro(baseline.costosFijosReales),
                utilidad_operativa |->
                  Micro(income) - income * baseline.tasaCostoVariable
                    - Micro(baseline.costosFijosReales) ]))

\* seasonalityProjection.map(...) (part_003:339-352)
pnlOfProjection(seasonalityProjection, baseline) ==
  [ k \in 1..Len(seasonalityProjection) |->
      LET proj == seasonalityProjection[k]
          costosFijos == Micro(baseline.costosFijosReales)
          tasaCostoVar == baseline.tasaCostoVariable
          costoVar == proj.projectedIncome * tasaCostoVar
          utilidad == Micro(proj.projectedIncome) - costoVar - costosFijos
      IN  [ mes |-> proj.month,
            ventas_devengado |-> Micro(proj.projectedIncome),
            costos_variables |-> costoVar,
            costos_fijos |-> costosFijos,
            utilidad_operativa |-> utilidad ] ]

\* runningCash after the first k entries (part_003:377-381)
RECURSIVE runningCashAfter(_, _, _)
runningCashAfter(pnl, k, start) ==
  IF k = 0 THEN start
  ELSE runningCashAfter(pnl, k - 1, start) + pnl[k].utilidad_operativa

cashflowOf(pnl, baseline) ==
  [ k \in 1..Len(pnl) |->
      [ mes |-> pnl[k].mes,
        ingresos_percibidos |-> pnl[k].ventas_devengado,
        egresos_totales |-> pnl[k].costos_variables + pnl[k].costos_fijos,
        flujo_de_caja_neto |-> pnl[k].utilidad_operativa,
        saldo_caja_final |->
          runningCashAfter(pnl, k, Micro(baseline.saldoCajaActual)) ] ]

\* if (!parsed.cashflow_projection || !Array.isArray(...)) rebuild it
cashflowKept(answer, pnl, baseline) ==
  IF answer.cashflow_projection.kind = "array"
  THEN answer.cashflow_projection.entries
  ELSE cashflowOf(pnl, baseline)

ServerError ==
  [status |-> 500, pnl_projection |-> <<>>, cashflow_projection |-> <<>>]

\* the response to a projection request, today being the server's local date
projectionResponse(invs, exps, cash, answer, today) ==
  LET aggregates == buildMonthlyAggregates(invs, exps)
      baseline == calculateProjectionBaseline(aggregates, cash)
      income == baseline.ingresosPromedioRecurrentes
      pnl ==
        IF Len(aggregates) = 0
        THEN fallbackProjection(0, today, baseline, <<>>)
        ELSE pnlOfProjection(
               projectIncomeWithSeasonality(aggregates, income, 12,
                 Some(Fraction(1, 1)),
                 [year |-> today.year, month |-> today.month + 1]),
               baseline)
  IN  IF ~answer.parsed THEN ServerError
      ELSE [ status |-> 200,
             pnl_projection |-> pnl,
             cashflow_projection |-> cashflowKept(answer, pnl, baseline) ]

----------------------------------------------------------------------------
(* SpecRoute: the route serves one projection request, which carries the  *)
(* invoices and expenses; the handler runs to its response in one step     *)
(* (the only await is the model's answer).                                 *)

\* 0.40 and 0.10
RouteInvoices ==
  SeqsUpTo({AggInvoice(Jan2024, 40 * 10), AggInvoice(Feb2024, 10 * 10)}, 2)

\* 0.10 fixed and 0.04 variable
RouteExpenses ==
  SeqsUpTo({ AggExpense(Jan2024, 10 * 10, "personal"),
             AggExpense(Jan2024, 4 * 10, "servicios") }, 1)

RouteCash == {0, 2 * Unit}

\* [year, month 1 to 12, day]
RouteDates ==
  { <<2024, 1, 15>>, <<2024, 1, 31>>, <<2023, 1, 29>>, <<2024, 1, 29>>,
    <<2024, 3, 31>>, <<2024, 11, 30>>, <<2024, 12, 31>> }

AiCashflowEntry ==
  [ mes |-> <<"2", "0", "3", "0", "-", "0", "1">>,
    ingresos_percibidos |-> 0, egresos_totales |-> 0,
    flujo_de_caja_neto |-> 0, saldo_caja_final |-> 7 * Unit * Unit ]

\* what the model answered: not JSON; JSON without cashflow_projection; with
\* one that is not an array; with an array
AiAnswers ==
  { [parsed |-> FALSE, cashflow_projection |-> [kind |-> "absent", entries |-> <<>>]],
    [parsed |-> TRUE, cashflow_projection |-> [kind |-> "absent", entries |-> <<>>]],
    [parsed |-> TRUE, cashflow_projection |-> [kind |-> "text", entries |-> <<>>]],
    [parsed |-> TRUE, cashflow_projection |-> [kind |-> "array", entries |-> <<>>]],
    [parsed |-> TRUE,
     cashflow_projection |-> [kind |-> "array", entries |-> <<AiCashflowEntry>>]] }

InitRoute ==
  /\ now = FixedClock
  /\ invoiceRow = Null /\ invoice = Null
  /\ expenseRow = Null /\ expense = Null
  /\ invoices = <<>> /\ totals = summarizeInvoices(<<>>)
  /\ pc = "serving"
  /\ aggInvoices = <<>> /\ aggExpenses = <<>>
  /\ monthlyAggregates = <<>>
  /\ currentCashBalance = 0
  /\ projectionBaseline = Null
  /\ financialMetrics = Null
  /\ SeasonIdle /\ ChainIdle
  /\ \E d \in RouteDates :
       /\ clockMonth = [year |-> d[1], month |-> d[2]]
       /\ clockDay = d[3]
  /\ baselineIncome = 0
  /\ projectionMonths = 0
  /\ growthFactorMonthly = Null
  /\ projection = Null
  /\ aiAnswer = Null /\ response = Null
  /\ OrderIdle /\ HookIdle /\ ReportIdle /\ PageIdle

PostProjection(invs, exps, cash, answer) ==
  /\ pc = "serving"
  /\ aggInvoices' = invs
  /\ aggExpenses' = exps
  /\ currentCashBalance' = cash
  /\ monthlyMap' = buildMonthlyMap(invs, exps)
  /\ monthlyAggregates' = buildMonthlyAggregates(invs, exps)
  /\ projectionBaseline' =
       Some(calculateProjectionBaseline(monthlyAggregates', cash))
  /\ financialMetrics' =
       Some(calculateFinancialMetrics(projectionBaseline'[1]))
  /\ aiAnswer' = Some(answer)
  /\ response' =
       Some(projectionResponse(invs, exps, cash, answer,
              [ year |-> clockMonth.year, month |-> clockMonth.month - 1,
                day |-> clockDay ]))
  /\ pc' = "responded"
  /\ UNCHANGED <<now, rowVars, expenseVars, listVars, seasonVars, runs,
                 projVars, clockDay, orderVars, hookVars, reportVars, pageVars>>

NextRoute ==
  \E invs \in RouteInvoices, exps \in RouteExpenses, cash \in RouteCash,
     answer \in AiAnswers :
    PostProjection(invs, exps, cash, answer)

SpecRoute == InitRoute /\ [][NextRoute]_vars

Successful == response # Null /\ response[1].status = 200

Pnl == response[1].pnl_projection
Cashflow == response[1].cashflow_projection

\* projected income - projected income x variable rate - fixed costs
OperatingProfit(entry) ==
  entry.ventas_devengado
    - (entry.ventas_devengado \div Unit) * projectionBaseline[1].tasaCostoVariable
    - Micro(projectionBaseline[1].costosFijosReales)

RECURSIVE ProfitUpTo(_)
ProfitUpTo(k) ==
  IF k = 0 THEN 0 ELSE ProfitUpTo(k - 1) + OperatingProfit(Pnl[k])

\* C22: in every successful projection response the cash-flow projection
\* has one entry per entry of the profit-and-loss projection, and the
\* closing balance of the k-th is the baseline's current cash plus the
\* operating profits (income - income x variable rate - fixed costs) of the
\* entries 1..k.
C22_CashflowChainsProfit ==
  Successful =>
    /\ Len(Cashflow) = Len(Pnl)
    /\ \A k \in 1..Len(Pnl) :
         /\ Pnl[k].utilidad_operativa = OperatingProfit(Pnl[k])
         /\ Cashflow[k].saldo_caja_final =
              Micro(projectionBaseline[1].saldoCajaActual) + ProfitUpTo(k)

\* C29: in every successful projection response, with or without history
\* and on any day of the month, the profit-and-loss projection has twelve
\* entries, the k-th keyed by the k-th calendar month after the current one.
C29_TwelveConsecutiveMonths ==
  Successful =>
    /\ Len(Pnl) = 12
    /\ \A k \in 1..Len(Pnl) :
         /\ IsMonthKey(Pnl[k].mes)
         /\ MonthOrdinal(Pnl[k].mes) = ClockOrdinal + k
    /\ \A j, k \in 1..Len(Pnl) : j < k => KeyBefore(Pnl[j].mes, Pnl[k].mes)

----------------------------------------------------------------------------
(* Monthly PDF report (part_001:182-297): the figures generateMonthlyReport *)
(* derives from the expenses of the target month.                           *)

\* asLocalDate(item.issueDate).toISOString().slice(0, 7) for a 'YYYY-MM-DD'
\* date in the middle of a month, where local midnight and its UTC instant
\* fall in the same month
isoMonthOf(issueDate) == SubSeq(issueDate, 1, Min(7, Len(issueDate)))

RECURSIVE filterByMonth(_, _, _)
filterByMonth(monthKey, items, i) ==
  IF i > Len(items) THEN <<>>
  ELSE (IF isoMonthOf(items[i].issueDate) = monthKey THEN <<items[i]>> ELSE <<>>)
         \o filterByMonth(monthKey, items, i + 1)

fixedCategories == {"personal", "servicios", "administrativos", "marketing"}
variableCategories == {"materiales", "equipos", "otros"}

\* items.filter(e => categories.includes(e.category))
\*      .reduce((sum, e) => sum + e.totalAmount, 0)
RECURSIVE sumOfCategories(_, _, _)
sumOfCategories(items, categories, i) ==
  IF i > Len(items) THEN 0
  ELSE (IF items[i].category \in categories THEN items[i].totalAmount ELSE 0)
         + sumOfCategories(items, categories, i + 1)

generateMonthlyReport(targetMonth, exps) ==
  LET currentMonthExpenses == filterByMonth(targetMonth, exps, 1)
  IN  [ month |-> targetMonth,
        cashBurn |-> sumOfCategories(currentMonthExpenses, fixedCategories, 1),
        totalVariableExpense |->
          sumOfCategories(currentMonthExpenses, variableCategories, 1) ]

(* SpecReport: the expenses of the page are aggregated by month and the    *)
(* report of a month is generated from the same expenses.                  *)

MaxReportExpenses == 2

ReportExpenses ==
  { AggExpense(Jan2024, 300 * Unit, c) : c \in ExpenseCategories }
  \cup { AggExpense(Feb2024, 100 * Unit, "personal") }

ReportMonths == {SubSeq(Jan2024, 1, 7), SubSeq(Feb2024, 1, 7)}

InitReport ==
  /\ now = FixedClock
  /\ invoiceRow = Null /\ invoice = Null
  /\ expenseRow = Null /\ expense = Null
  /\ invoices = <<>> /\ totals = summarizeInvoices(<<>>)
  /\ pc = "aggregate"
  /\ aggInvoices = <<>>
  /\ aggExpenses \in SeqsUpTo(ReportExpenses, MaxReportExpenses)
  /\ monthlyAggregates = <<>>
  /\ BaseIdle

GenerateMonthlyReport(targetMonth) ==
  /\ pc = "aggregated"
  /\ report' = Some(generateMonthlyReport(targetMonth, aggExpenses))
  /\ pc' = "reported"
  /\ UNCHANGED <<now, rowVars, expenseVars, listVars, aggInvoices, aggExpenses,
                 monthlyAggregates, baseVars, seasonVars, chainVars, projVars,
                 orderVars, routeVars, hookVars, pageVars>>

NextReport ==
  \/ BuildMonthlyAggregates
  \/ \E targetMonth \in ReportMonths : GenerateMonthlyReport(targetMonth)

SpecReport == InitReport /\ [][NextReport]_vars

Reported == pc = "reported"

\* the fixed and variable expenses the aggregator has for a month
AggregatedFixed(monthKey) ==
  SumSeq([k \in 1..Len(monthlyAggregates) |->
            IF monthlyAggregates[k].month = monthKey
            THEN monthlyAggregates[k].fixedExpenses ELSE 0])

AggregatedVariable(monthKey) ==
  SumSeq([k \in 1..Len(monthlyAggregates) |->
            IF monthlyAggregates[k].month = monthKey
            THEN monthlyAggregates[k].variableExpenses ELSE 0])

\* C28: the report's fixed and variable expense figures of a month are the
\* aggregator's for that month: every one of the seven categories is fixed
\* in the report exactly when it is fixed for buildMonthlyAggregates
\* (personal, administrativos, equipos).
C28_ReportClassifiesAsAggregator ==
  Reported =>
    /\ round(report[1].cashBurn, 1) = AggregatedFixed(report[1].month)
    /\ round(report[1].totalVariableExpense, 1) =
         AggregatedVariable(report[1].month)

----------------------------------------------------------------------------
(* hooks/use-invoices.ts: the mutations of useInvoices against the         *)
(* invoices table.  A call is [pc, op, request, response, result]: pc is   *)
(* its position (idle, checking, inserting, updating, responded,           *)
(* returned), request what it has sent to the database, response the row   *)
(* the database returned (<<>> for an error) and result the error it       *)
(* returned ("" for { data }).  An invoice number is a sequence of          *)
(* characters; a form field holding a number is <<n>>, <<>> when its text  *)
(* is empty or no number.                                                   *)

RECURSIVE trimStart(_)
trimStart(s) ==
  IF s # <<>> /\ Head(s) = " " THEN trimStart(Tail(s)) ELSE s

RECURSIVE trimEnd(_)
trimEnd(s) ==
  IF s # <<>> /\ s[Len(s)] = " " THEN trimEnd(SubSeq(s, 1, Len(s) - 1)) ELSE s

\* String.prototype.trim
trim(s) == trimEnd(trimStart(s))

\* Number(text) || 0
numberOrZero(field) == Coalesce(field, 0)

buildInvoicePayload_paidAsEntered(input) ==
  LET amount == numberOrZero(input.amount)
      vat == numberOrZero(input.vat)
      total == round(amount * (100 + vat), 100)
      paid == numberOrZero(input.paid)
  IN  [ invoice_number |-> trim(input.id),
        issue_date |-> Some(ParsedDate(input.issueDate)),
        due_date |-> Some(ParsedDate(input.dueDate)),
        amount |-> Some(amount),
        vat |-> Some(vat),
        total |-> Some(total),
        paid |-> Some(paid) ]

buildInvoicePayload(input) ==
  LET amount == numberOrZero(input.amount)
      vat == numberOrZero(input.vat)
      total == round(amount * (100 + vat), 100)
      paid == Min(numberOrZero(input.paid), total)
  IN  [ invoice_number |-> trim(input.id),
        issue_date |-> Some(ParsedDate(input.issueDate)),
        due_date |-> Some(ParsedDate(input.dueDate)),
        amount |-> Some(amount),
        vat |-> Some(vat),
        total |-> Some(total),
        paid |-> Some(paid) ]

\* parseSunatInvoiceXML on a document [wellFormed, id, amount, vat, day]:
\* the form it yields, or the error it throws
parseSunatInvoiceXML(xml) ==
  IF ~xml.wellFormed \/ xml.id = <<>>
  THEN [threw |-> TRUE, form |-> Null]
  ELSE [ threw |-> FALSE,
         form |-> Some([ id |-> xml.id, issueDate |-> xml.day,
                         dueDate |-> xml.day,
                         amount |-> Some(round(xml.amount, 1)),
                         vat |-> Some(xml.vat), paid |-> Some(0) ]) ]

IdleCall ==
  [pc |-> "idle", op |-> "none", request |-> Null, response |-> Null,
   result |-> ""]

Returned(op, error) ==
  [pc |-> "returned", op |-> op, request |-> Null, response |-> Null,
   result |-> error]

Pending(at, op, request) ==
  [pc |-> at, op |-> op, request |-> Some(request), response |-> Null,
   result |-> ""]

\* invoices.find((invoice) => invoice.recordId === invoiceId)
find(list, invoiceId) ==
  LET found == { k \in 1..Len(list) : list[k].recordId = invoiceId }
  IN  IF found = {} THEN Null
      ELSE Some(list[CHOOSE k \in found : \A j \in found : k <= j])

\* the calls up to their first await
createInvoice(input) ==
  IF trim(input.id) = <<>> THEN Returned("createInvoice", "blank")
  ELSE Pending("checking", "createInvoice", input)

createInvoiceFromXML(xml) ==
  LET parsed == parseSunatInvoiceXML(xml)
  IN  IF parsed.threw THEN Returned("createInvoiceFromXML", "xml")
      ELSE createInvoice(parsed.form[1])

applyManualPayment(list, invoiceId, amount) ==
  LET target == find(list, invoiceId)
  IN  IF amount <= 0 THEN Returned("applyManualPayment", "invalid")
      ELSE IF target = Null THEN Returned("applyManualPayment", "notFound")
      ELSE Pending("updating", "applyManualPayment",
             [ id |-> invoiceId,
               paid |-> Some(Min(target[1].paid + amount, target[1].total)),
               status |-> Null ])

markAsPaid(list, invoiceId) ==
  LET target == find(list, invoiceId)
  IN  IF target = Null THEN Returned("markAsPaid", "notFound")
      ELSE Pending("updating", "markAsPaid",
             [ id |-> invoiceId, paid |-> Some(target[1].total),
               status |-> Some("pagado") ])

revertPayment(list, invoiceId) ==
  LET target == find(list, invoiceId)
  IN  IF target = Null THEN Returned("revertPayment", "notFound")
      ELSE Pending("updating", "revertPayment",
             [ id |-> invoiceId, paid |-> Some(0),
               status |-> Some("pendiente") ])

\* the rows .eq('invoice_number', normalized) selects
rowsNumbered(table, normalized) ==
  { k \in 1..Len(table) : table[k].invoice_number = normalized }

\* insert(payload): the database gives the row its id and the default
\* status 'pendiente' (migration 20250217-001, line 129)
insertedRow(table, payload) ==
  [id |-> Len(table) + 1, status |-> Some("pendiente")] @@ payload

\* update(patch).eq('id', id)
updatedRow(row, patch) ==
  [row EXCEPT !.paid = patch.paid,
              !.status = IF patch.status = Null THEN @ ELSE patch.status]

----------------------------------------------------------------------------
(* The steps of a call: its synchronous start, the database executing its  *)
(* select, insert or update, and the continuation that maps the returned   *)
(* row into the local list.  fails is the database or the network          *)
(* answering with an error; the table has no constraint on invoice_number. *)

MaxCalls == 2
MaxRows == 2

Callers == 1..MaxCalls

Free(c) == calls[c].pc \in {"idle", "returned"}

\* rows in the table and inserts under way stay within MaxRows
RowsLeft ==
  Len(invoicesTable)
    + Cardinality({ c \in Callers : calls[c].pc \in {"checking", "inserting"} })
    < MaxRows

hookFrame ==
  <<now, rowVars, expenseVars, pc, aggInvoices, aggExpenses, monthlyAggregates,
    baseVars, seasonVars, chainVars, projVars, orderVars, routeVars,
    reportVars, pageVars>>

CreateInvoice(c, input) ==
  /\ Free(c)
  /\ RowsLeft
  /\ calls' = [calls EXCEPT ![c] = createInvoice(input)]
  /\ UNCHANGED <<hookFrame, listVars, invoicesTable>>

CreateInvoiceFromXML(c, xml) ==
  /\ Free(c)
  /\ RowsLeft
  /\ calls' = [calls EXCEPT ![c] = createInvoiceFromXML(xml)]
  /\ UNCHANGED <<hookFrame, listVars, invoicesTable>>

ApplyManualPayment(c, invoiceId, amount) ==
  /\ Free(c)
  /\ calls' = [calls EXCEPT ![c] = applyManualPayment(invoices, invoiceId, amount)]
  /\ UNCHANGED <<hookFrame, listVars, invoicesTable>>

MarkAsPaid(c, invoiceId) ==
  /\ Free(c)
  /\ calls' = [calls EXCEPT ![c] = markAsPaid(invoices, invoiceId)]
  /\ UNCHANGED <<hookFrame, listVars, invoicesTable>>

RevertPayment(c, invoiceId) ==
  /\ Free(c)
  /\ calls' = [calls EXCEPT ![c] = revertPayment(invoices, invoiceId)]
  /\ UNCHANGED <<hookFrame, listVars, invoicesTable>>

\* ensureInvoiceDoesNotExist: the select executes; maybeSingle() answers
\* with an error when several rows match
Select(c, fails) ==
  /\ calls[c].pc = "checking"
  /\ LET input == calls[c].request[1]
         matches == rowsNumbered(invoicesTable, trim(input.id))
     IN  calls' = [calls EXCEPT ![c] =
           IF fails \/ Cardinality(matches) > 1
           THEN Returned(calls[c].op, "persistence")
           ELSE IF matches # {} THEN Returned(calls[c].op, "duplicate")
           ELSE Pending("inserting", calls[c].op, buildInvoicePayload(input))]
  /\ UNCHANGED <<hookFrame, listVars, invoicesTable>>

Insert(c, fails) ==
  /\ calls[c].pc = "inserting"
  /\ IF fails
     THEN /\ calls' = [calls EXCEPT ![c].pc = "responded"]
          /\ UNCHANGED invoicesTable
     ELSE LET row == insertedRow(invoicesTable, calls[c].request[1])
          IN  /\ invoicesTable' = Append(invoicesTable, row)
              /\ calls' = [calls EXCEPT ![c].pc = "responded",
                                        ![c].response = Some(row)]
  /\ UNCHANGED <<hookFrame, listVars>>

Update(c, fails) ==
  /\ calls[c].pc = "updating"
  /\ LET patch == calls[c].request[1]
     IN  IF fails \/ patch.id \notin 1..Len(invoicesTable)
         THEN /\ calls' = [calls EXCEPT ![c].pc = "responded"]
              /\ UNCHANGED invoicesTable
         ELSE LET row == updatedRow(invoicesTable[patch.id], patch)
              IN  /\ invoicesTable' = [invoicesTable EXCEPT ![patch.id] = row]
                  /\ calls' = [calls EXCEPT ![c].pc = "responded",
                                            ![c].response = Some(row)]
  /\ UNCHANGED <<hookFrame, listVars>>

\* setInvoices((prev) => ...) with the mapped row
setInvoices(prev, op, mapped) ==
  IF op \in {"createInvoice", "createInvoiceFromXML"} THEN <<mapped>> \o prev
  ELSE [k \in 1..Len(prev) |->
          IF prev[k].recordId = mapped.recordId THEN mapped ELSE prev[k]]

Return_clearOnError(c) ==
  /\ calls[c].pc = "responded"
  /\ IF calls[c].response = Null
     THEN /\ calls' = [calls EXCEPT ![c] = Returned(calls[c].op, "persistence")]
          /\ invoices' = <<>>
          /\ totals' = summarizeInvoices(invoices')
     ELSE /\ invoices' =
               setInvoices(invoices, calls[c].op,
                           mapInvoiceRow(calls[c].response[1], now))
          /\ totals' = summarizeInvoices(invoices')
          /\ calls' = [calls EXCEPT ![c] = Returned(calls[c].op, "")]
  /\ UNCHANGED <<hookFrame, invoicesTable>>

Return(c) ==
  /\ calls[c].pc = "responded"
  /\ IF calls[c].response = Null
     THEN /\ calls' = [calls EXCEPT ![c] = Returned(calls[c].op, "persistence")]
          /\ UNCHANGED listVars
     ELSE /\ invoices' =
               setInvoices(invoices, calls[c].op,
                           mapInvoiceRow(calls[c].response[1], now))
          /\ totals' = summarizeInvoices(invoices')
          /\ calls' = [calls EXCEPT ![c] = Returned(calls[c].op, "")]
  /\ UNCHANGED <<hookFrame, invoicesTable>>

F1 == <<"F", "1">>
F2 == <<"F", "2">>
SpacedF1 == <<" ", "F", "1", " ">>
Blank == <<" ">>

\* amounts 10.00 and -5.00, paid empty or 20.00, due ten days from today
InvoiceForms ==
  [ id : {F1, F2, SpacedF1, Blank},
    issueDate : {Today},
    dueDate : {Today + 10},
    amount : {Some(10 * Unit), Some(-5 * Unit)},
    vat : {Null},
    paid : {Null, Some(20 * Unit)} ]

XmlDocuments ==
  { [wellFormed |-> FALSE, id |-> <<>>, amount |-> 0, vat |-> 0, day |-> Today],
    [wellFormed |-> TRUE, id |-> <<>>, amount |-> 0, vat |-> 0, day |-> Today],
    [wellFormed |-> TRUE, id |-> F1, amount |-> 10 * Unit + 4, vat |-> 0,
     day |-> Today] }

\* -1.00, 0, 4.00 and 5.996
PaymentAmounts == {-Unit, 0, 4 * Unit, 5 * Unit + 996}

InvoiceIds == 1..(MaxRows + 1)

InitHook ==
  /\ now = FixedClock
  /\ invoiceRow = Null /\ invoice = Null
  /\ expenseRow = Null /\ expense = Null
  /\ invoices = <<>> /\ totals = summarizeInvoices(<<>>)
  /\ pc = "hook"
  /\ aggInvoices = <<>> /\ aggExpenses = <<>>
  /\ monthlyAggregates = <<>>
  /\ currentCashBalance = 0
  /\ projectionBaseline = Null
  /\ financialMetrics = Null
  /\ SeasonIdle /\ ChainIdle /\ ProjIdle
  /\ OrderIdle /\ RouteIdle /\ ReportIdle /\ PageIdle
  /\ invoicesTable = <<>>
  /\ calls = [c \in Callers |-> IdleCall]

(* SpecHook: the calls are made one after the other, each run to its       *)
(* return before the next starts.                                           *)

NextHook ==
  \/ \E input \in InvoiceForms : CreateInvoice(1, input)
  \/ \E xml \in XmlDocuments : CreateInvoiceFromXML(1, xml)
  \/ \E invoiceId \in InvoiceIds, amount \in PaymentAmounts :
       ApplyManualPayment(1, invoiceId, amount)
  \/ \E invoiceId \in InvoiceIds : MarkAsPaid(1, invoiceId)
  \/ \E invoiceId \in InvoiceIds : RevertPayment(1, invoiceId)
  \/ \E fails \in BOOLEAN : Select(1, fails)
  \/ \E fails \in BOOLEAN : Insert(1, fails)
  \/ \E fails \in BOOLEAN : Update(1, fails)
  \/ Return(1)

SpecHook == InitHook /\ [][NextHook]_vars

Settled == \A c \in Callers : Free(c)

Rows == 1..Len(invoicesTable)

\* total - paid rounded to two decimals
RoundedBalance(inv) == round(inv.total - inv.paid, 1)

\* C24: after any sequence of createInvoice, applyManualPayment, markAsPaid
\* and revertPayment, each run to completion, every persisted invoice of
\* non-negative total has paid <= total and every invoice of the local list
\* has balance >= 0 and is 'Pagado' exactly when total - paid, rounded to
\* two decimals, is not positive.
C24_PaidWithinTotal ==
  Settled =>
    /\ \A r \in Rows :
         invoicesTable[r].total[1] >= 0 =>
           invoicesTable[r].paid[1] <= invoicesTable[r].total[1]
    /\ \A k \in 1..Len(invoices) :
         /\ invoices[k].balance >= 0
         /\ invoices[k].status = "Pagado" <=> RoundedBalance(invoices[k]) <= 0

\* an invoice of 10.00 paid 4.00 and then 5.996: 'Pagado' with 9.996 paid
C24_Witness ==
  /\ Settled
  /\ calls[1].op = "applyManualPayment" /\ calls[1].result = ""
  /\ Len(invoicesTable) = 1
  /\ invoicesTable[1].total = Some(10 * Unit)
  /\ invoicesTable[1].paid = Some(10 * Unit - 4)
  /\ Len(invoices) = 1
  /\ invoices[1].paid = 10 * Unit - 4
  /\ invoices[1].balance = 0
  /\ invoices[1].status = "Pagado"

\* C24 as stated: paid <= total for every persisted invoice, and 'Pagado'
\* exactly when paid >= total.
C24_Original ==
  Settled =>
    /\ \A r \in Rows : invoicesTable[r].paid[1] <= invoicesTable[r].total[1]
    /\ \A k \in 1..Len(invoices) :
         /\ invoices[k].balance >= 0
         /\ invoices[k].status = "Pagado" <=> invoices[k].paid >= invoices[k].total

\* the step is the return of call c with an error
ReturnsError(c) ==
  /\ calls'[c] # calls[c]
  /\ calls'[c].pc = "returned"
  /\ calls'[c].result # ""

\* C27: a call that returns an error leaves the local list as it is, the
\* list changing only in the step in which a call returns its data; a call
\* that returns for an invalid amount or an unknown id does so before
\* sending anything to the database, and the table is unchanged.
C27_ErrorsLeaveListUnchanged ==
  [][ /\ \A c \in Callers :
           ReturnsError(c) =>
             /\ invoices' = invoices
             /\ calls'[c].result \in {"invalid", "notFound"} =>
                  Free(c) /\ invoicesTable' = invoicesTable
      /\ invoices' # invoices =>
           \E c \in Callers :
             /\ calls[c].pc = "responded" /\ calls[c].response # Null
             /\ calls'[c].pc = "returned" /\ calls'[c].result = "" ]_vars

\* a payment on a listed invoice answered with a persistence error
C27_Witness ==
  /\ calls[1].pc = "returned"
  /\ calls[1].op = "applyManualPayment"
  /\ calls[1].result = "persistence"
  /\ Len(invoices) = 1
  /\ invoices[1].paid = 0
  /\ invoicesTable[1].paid = Some(0)

----------------------------------------------------------------------------
(* SpecCreate: createInvoice and createInvoiceFromXML called while other   *)
(* calls are under way.                                                     *)

CreateForms ==
  { f \in InvoiceForms : f.amount = Some(10 * Unit) /\ f.paid = Null }

NextCreate ==
  \E c \in Callers :
    \/ \E input \in CreateForms : CreateInvoice(c, input)
    \/ \E xml \in XmlDocuments : CreateInvoiceFromXML(c, xml)
    \/ \E fails \in BOOLEAN : Select(c, fails)
    \/ \E fails \in BOOLEAN : Insert(c, fails)
    \/ Return(c)

SpecCreate == InitHook /\ [][NextCreate]_vars

\* C26: under every interleaving of createInvoice and createInvoiceFromXML
\* calls no two inserted invoices have the same trimmed invoice number.
C26_NoDuplicateNumbers ==
  \A r, q \in Rows :
    r # q => invoicesTable[r].invoice_number # invoicesTable[q].invoice_number

----------------------------------------------------------------------------
(* SpecPayments: an invoice of 6.00, 8.00 or 10.00 with 2.00 paid is in    *)
(* the table and in the local list; each caller applies one payment to    *)
(* it, 3.00, 4.00, ...                                                      *)

StoredPaid == 2 * Unit
StoredTotals == {6 * Unit, 8 * Unit, 10 * Unit}

StoredRow(total) ==
  [ id |-> 1, status |-> Some("pendiente"), invoice_number |-> F1,
    issue_date |-> Some(ParsedDate(Today)),
    due_date |-> Some(ParsedDate(Today + 10)),
    amount |-> Some(total), vat |-> Some(0),
    total |-> Some(total), paid |-> Some(StoredPaid) ]

AmountOf(c) == (2 + c) * Unit

InitPayments ==
  /\ now = FixedClock
  /\ invoiceRow = Null /\ invoice = Null
  /\ expenseRow = Null /\ expense = Null
  /\ \E total \in StoredTotals :
       /\ invoicesTable = <<StoredRow(total)>>
       /\ invoices = <<mapInvoiceRow(StoredRow(total), now)>>
  /\ totals = summarizeInvoices(invoices)
  /\ pc = "hook"
  /\ aggInvoices = <<>> /\ aggExpenses = <<>>
  /\ monthlyAggregates = <<>>
  /\ currentCashBalance = 0
  /\ projectionBaseline = Null
  /\ financialMetrics = Null
  /\ SeasonIdle /\ ChainIdle /\ ProjIdle
  /\ OrderIdle /\ RouteIdle /\ ReportIdle /\ PageIdle
  /\ calls = [c \in Callers |-> IdleCall]

NextPayments ==
  \E c \in Callers :
    \/ calls[c].pc = "idle" /\ ApplyManualPayment(c, 1, AmountOf(c))
    \/ \E fails \in BOOLEAN : Update(c, fails)
    \/ Return(c)

SpecPayments == InitPayments /\ [][NextPayments]_vars

RECURSIVE AmountsUpTo(_)
AmountsUpTo(c) == IF c = 0 THEN 0 ELSE AmountsUpTo(c - 1) + AmountOf(c)

\* C25: when every caller's payment on the invoice has returned
\* successfully, the persisted paid is min(p + a1 + a2 + ..., t), whatever
\* the interleaving: no applied payment is lost.
C25_NoPaymentLost ==
  (\A c \in Callers : calls[c].pc = "returned" /\ calls[c].result = "") =>
    invoicesTable[1].paid =
      Some(Min(StoredPaid + AmountsUpTo(MaxCalls), invoicesTable[1].total[1]))

----------------------------------------------------------------------------
(* The projection page: generateProjection and its localStorage cache.     *)
(* aggInvoices and aggExpenses are the collections of the page's hooks,    *)
(* reduced to the fields the projection reads; the invoices are unpaid, so *)
(* the cash the route derives from them is 0.                              *)

RECURSIVE stripTrailingZeros(_)
stripTrailingZeros(str) ==
  IF str # <<>> /\ str[Len(str)] = "0"
  THEN stripTrailingZeros(SubSeq(str, 1, Len(str) - 1))
  ELSE str

\* `${n}` for an amount n >= 0: 400 is '0.4', 1000 is '1', 1250 is '1.25'
numberText(n) ==
  IF n % Unit = 0 THEN String(n \div Unit)
  ELSE String(n \div Unit) \o <<".">>
         \o stripTrailingZeros(padStart(String(n % Unit), 3, "0"))

RECURSIVE sumOfTotals(_)
sumOfTotals(list) ==
  IF list = <<>> THEN 0 ELSE list[1].total + sumOfTotals(Tail(list))

RECURSIVE sumOfTotalAmounts(_)
sumOfTotalAmounts(list) ==
  IF list = <<>> THEN 0
  ELSE list[1].totalAmount + sumOfTotalAmounts(Tail(list))

dataSignature(invs, exps) ==
  String(Len(invs)) \o <<"-">> \o String(Len(exps)) \o <<"-">>
    \o numberText(sumOfTotals(invs)) \o <<"-">>
    \o numberText(sumOfTotalAmounts(exps))

requestBody(invs, exps) == [invoices |-> invs, expenses |-> exps]

MaxPageInvoices == 1
MaxPageExpenses == 1

\* 0.40 issued in January or in February
PageInvoices ==
  SeqsUpTo({AggInvoice(Jan2024, 40 * 10), AggInvoice(Feb2024, 40 * 10)},
           MaxPageInvoices)

\* 0.10 of a fixed or of a variable category
PageExpenses ==
  SeqsUpTo({ AggExpense(Jan2024, 10 * 10, "personal"),
             AggExpense(Jan2024, 10 * 10, "servicios") }, MaxPageExpenses)

\* the model's answer is not JSON (the route answers 500), or is JSON
PageAnswers ==
  { a \in AiAnswers : a.cashflow_projection.kind = "absent" }

InitPage ==
  /\ now = FixedClock
  /\ invoiceRow = Null /\ invoice = Null
  /\ expenseRow = Null /\ expense = Null
  /\ invoices = <<>> /\ totals = summarizeInvoices(<<>>)
  /\ pc = "page"
  /\ aggInvoices \in PageInvoices
  /\ aggExpenses \in PageExpenses
  /\ monthlyAggregates = <<>>
  /\ BaseIdle

\* the hooks deliver other collections (a record is edited, added, removed)
ChangeRecords(invs, exps) ==
  /\ requestBody(invs, exps) # requestBody(aggInvoices, aggExpenses)
  /\ aggInvoices' = invs
  /\ aggExpenses' = exps
  /\ pc' = "changed"
  /\ UNCHANGED <<now, rowVars, expenseVars, listVars, monthlyAggregates,
                 baseVars, seasonVars, chainVars, projVars, orderVars,
                 routeVars, hookVars, reportVars, pageVars>>

GenerateProjection(force, answer) ==
  LET signature == dataSignature(aggInvoices, aggExpenses)
      cached ==
        /\ ~force
        /\ cachedProjection # Null
        /\ cachedSignature # Null
        /\ cachedSignature = Some(signature)
      responseData ==
        projectionResponse(aggInvoices, aggExpenses, 0, answer,
          [ year |-> clockMonth.year, month |-> clockMonth.month - 1,
            day |-> clockDay ])
  IN  /\ IF cached
         THEN /\ data' = cachedProjection
              /\ pc' = "cached"
              /\ UNCHANGED <<cachedProjection, cachedSignature, cachedFrom>>
         ELSE IF responseData.status # 200
         THEN /\ pc' = "failed"
              /\ UNCHANGED pageVars
         ELSE /\ data' = Some(responseData)
              /\ cachedProjection' = Some(responseData)
              /\ cachedSignature' = Some(signature)
              /\ cachedFrom' = Some(requestBody(aggInvoices, aggExpenses))
              /\ pc' = "fetched"
      /\ UNCHANGED <<now, rowVars, expenseVars, listVars, aggInvoices,
                     aggExpenses, monthlyAggregates, baseVars, seasonVars,
                     chainVars, projVars, orderVars, routeVars, hookVars,
                     reportVars>>

NextPage ==
  \/ \E invs \in PageInvoices, exps \in PageExpenses :
       ChangeRecords(invs, exps)
  \/ \E force \in BOOLEAN, answer \in PageAnswers :
       GenerateProjection(force, answer)

SpecPage == InitPage /\ [][NextPage]_vars

\* C30: whenever generateProjection(false) has served the cached projection
\* instead of requesting a new one, the invoices and expenses the cached
\* projection was computed from are the current ones, record by record
\* (issue dates, categories, amounts); so after a change of the records the
\* next non-forced generation requests a new projection.
C30_CacheServedForSameRecords ==
  pc = "cached" =>
    cachedFrom = Some(requestBody(aggInvoices, aggExpenses))

----------------------------------------------------------------------------
(* SpecCalls: a caller holds the invoices, the expenses and the aggregates *)
(* and hands them to the five computations in turn, a request after        *)
(* another.  Each action gives the collections the value they have after   *)
(* what the function does with them: forEach and for...of with bodies     *)
(* that only read the element (lines 173-178, 180-189, 449-455), reduce,   *)
(* and slice(-lookbackMonths) (line 215).                                  *)

receiverAfterForEach(list) == list

\* had the function taken the recent months with splice(-lookbackMonths)
receiverAfterSlice_splice(list, n) ==
  SubSeq(list, 1, Len(list) - Len(sliceLast(list, n)))

\* slice copies: the receiver keeps its elements
receiverAfterSlice(list, n) == list

CallStages == {"aggregate", "baseline", "metrics", "seasonality", "projection"}

InitCalls ==
  /\ now = FixedClock
  /\ invoiceRow = Null /\ invoice = Null
  /\ expenseRow = Null /\ expense = Null
  /\ invoices = <<>> /\ totals = summarizeInvoices(<<>>)
  /\ pc = "aggregate"
  /\ aggInvoices \in RouteInvoices
  /\ aggExpenses \in RouteExpenses
  /\ monthlyAggregates = <<>>
  /\ currentCashBalance \in RouteCash
  /\ projectionBaseline = Null
  /\ financialMetrics = Null
  /\ ExtIdle

\* the caller takes up the next request
Receive(invs, exps, cash) ==
  /\ pc = "done"
  /\ aggInvoices' = invs
  /\ aggExpenses' = exps
  /\ currentCashBalance' = cash
  /\ pc' = "aggregate"
  /\ UNCHANGED <<now, rowVars, expenseVars, listVars, monthlyAggregates,
                 projectionBaseline, financialMetrics, seasonVars, chainVars,
                 projVars, laterVars>>

CallBuildMonthlyAggregates ==
  /\ pc = "aggregate"
  /\ monthlyMap' = buildMonthlyMap(aggInvoices, aggExpenses)
  /\ monthlyAggregates' = buildMonthlyAggregates(aggInvoices, aggExpenses)
  /\ aggInvoices' = receiverAfterForEach(aggInvoices)
  /\ aggExpenses' = receiverAfterForEach(aggExpenses)
  /\ pc' = "baseline"
  /\ UNCHANGED <<now, rowVars, expenseVars, listVars, baseVars, seasonVars,
                 runs, projVars, laterVars>>

CallCalculateProjectionBaseline ==
  /\ pc = "baseline"
  /\ projectionBaseline' =
       Some(calculateProjectionBaseline(monthlyAggregates, currentCashBalance))
  /\ monthlyAggregates' = receiverAfterSlice(monthlyAggregates, lookbackMonths)
  /\ pc' = "metrics"
  /\ UNCHANGED <<now, rowVars, expenseVars, listVars, aggInvoices, aggExpenses,
                 currentCashBalance, financialMetrics, seasonVars, chainVars,
                 projVars, laterVars>>

CallCalculateFinancialMetrics ==
  /\ pc = "metrics"
  /\ financialMetrics' = Some(calculateFinancialMetrics(projectionBaseline[1]))
  /\ pc' = "seasonality"
  /\ UNCHANGED <<now, rowVars, expenseVars, listVars, aggInvoices, aggExpenses,
                 monthlyAggregates, currentCashBalance, projectionBaseline,
                 seasonVars, chainVars, projVars, laterVars>>

CallAnalyzeSeasonality ==
  /\ pc = "seasonality"
  /\ seasonalityIndices' =
       Some([ raw |-> IF Len(monthlyAggregates) = 0 THEN Null
                      ELSE Some(rawIndices(monthlyAggregates)),
              indices |-> analyzeSeasonality(monthlyAggregates) ])
  /\ monthlyAggregates' = receiverAfterForEach(monthlyAggregates)
  /\ pc' = "projection"
  /\ UNCHANGED <<now, rowVars, expenseVars, listVars, aggInvoices, aggExpenses,
                 baseVars, chainVars, projVars, laterVars>>

\* the call of the route: twelve months, no growth (part_003:329-334)
CallProjectIncomeWithSeasonality ==
  /\ pc = "projection"
  /\ projection' =
       Some(projectIncomeWithSeasonality(monthlyAggregates,
              projectionBaseline[1].ingresosPromedioRecurrentes, 12,
              Some(Fraction(1, 1)), clockMonth))
  /\ monthlyAggregates' = receiverAfterForEach(monthlyAggregates)
  /\ pc' = "done"
  /\ UNCHANGED <<now, rowVars, expenseVars, listVars, aggInvoices, aggExpenses,
                 baseVars, seasonVars, chainVars, clockMonth, baselineIncome,
                 projectionMonths, growthFactorMonthly, laterVars>>

NextCalls ==
  \/ \E invs \in RouteInvoices, exps \in RouteExpenses, cash \in RouteCash :
       Receive(invs, exps, cash)
  \/ CallBuildMonthlyAggregates
  \/ CallCalculateProjectionBaseline
  \/ CallCalculateFinancialMetrics
  \/ CallAnalyzeSeasonality
  \/ CallProjectIncomeWithSeasonality

SpecCalls == InitCalls /\ [][NextCalls]_vars

MonthsOf(list) == { localMonthKey(list[k].issueDate) : k \in 1..Len(list) }

MapKeys(map) == { map[k].key : k \in 1..Len(map) }

\* what a call owes to the collections handed to it
InputsKept ==
  /\ aggInvoices' = aggInvoices
  /\ aggExpenses' = aggExpenses
  /\ pc # "aggregate" => monthlyAggregates' = monthlyAggregates
  /\ pc \in {"metrics", "seasonality", "projection"} =>
       projectionBaseline' = projectionBaseline
  /\ pc = "aggregate" =>
       MapKeys(monthlyMap') \subseteq
         (MonthsOf(aggInvoices) \cup MonthsOf(aggExpenses))

====
